---- MODULE Spec2Model ----
(***************************************************************************)
(* Model of the duel engine of Lowlife: the DuelState aggregate of         *)
(* src/duel_core.py and the button handlers, outcome resolution and AI     *)
(* policy of src/duel_legacy.py.                                           *)
(*                                                                         *)
(* Conventions.  The two combatants are "a" and "b" (DuelState.a / .b).    *)
(* Python's None is the empty tuple <<>> for pairs and dict entries, and   *)
(* NoVal for a missing integer dict entry.  A probability is an integer    *)
(* in per mille.  A log line is a record: a tag naming which message it    *)
(* is, and whether push() put an animation frame in front of it, so a      *)
(* pushed line never equals a raw one.  random.* draws are inputs chosen   *)
(* with \E.                                                                *)
(***************************************************************************)
EXTENDS Integers, Sequences, FiniteSets, TLC

Ids == {"a", "b"}
NoVal == -1

\* ---------- bounds of the model ----------
\* how many turn ticks a run is followed past its first state
Horizon == 3

\* the latest expiry tick, and the highest count, a clearing stack is given
MaxExpiry == 2
MaxStack == 2

\* how long the full log is let grow when the log is followed on its own
MaxLog == 8

\* the arguments the helpers are called with on their own: armor up to
\* MaxArmor either side of 0, damage up to MaxDamage, lines up to MaxSegs wide
MaxArmor == 10
MaxDamage == 5
MaxSegs == 30

\* ---------- program constants ----------
VisSegments == 26
NumGates == 5
HANDS == 0
CLOSE == 1
MID == 2
LogVisible == 6
CoverPctDefault == 40
FistsAccuracy == 70
FistsDamage == 6
StartHp == 100

\* ---------- misc helpers ----------
Min(x, y) == IF x <= y THEN x ELSE y
Max(x, y) == IF x >= y THEN x ELSE y
iclamp(v, lo, hi) == Max(lo, Min(hi, v))
Abs(x) == IF x < 0 THEN -x ELSE x
Xor1(x) == 1 - x
OtherId(u) == IF u = "a" THEN "b" ELSE "a"

\* Python's round() of the rational n/d (d > 0): to nearest, ties to even.
RoundHalfEven(n, d) ==
  LET q == n \div d
      r == n % d
  IN  IF 2 * r < d THEN q
      ELSE IF 2 * r > d THEN q + 1
      ELSE IF q % 2 = 0 THEN q ELSE q + 1

\* ---------- DuelState: small utilities ----------
current(s) == IF s.turn_id = 0 THEN "a" ELSE "b"
other(s) == IF s.turn_id = 0 THEN "b" ELSE "a"
rngate(s) == s.range_idx

is_draw(s) ==
  LET a_dead == s.hp["a"] <= 0 \/ "a" \in s.unconscious
      b_dead == s.hp["b"] <= 0 \/ "b" \in s.unconscious
  IN  a_dead /\ b_dead

\* winner(): <<>> for None, else <<id>>
winner(s) ==
  IF s.hp["a"] <= 0 /\ s.hp["b"] > 0 THEN <<"b">>
  ELSE IF s.hp["b"] <= 0 /\ s.hp["a"] > 0 THEN <<"a">>
  ELSE IF "a" \in s.unconscious /\ "b" \notin s.unconscious THEN <<"b">>
  ELSE IF "b" \in s.unconscious /\ "a" \notin s.unconscious THEN <<"a">>
  ELSE <<>>

\* ---------- DuelState: the log ----------
Tail6(q) == IF Len(q) > LogVisible THEN SubSeq(q, Len(q) - LogVisible + 1, Len(q)) ELSE q

add_raw(s, line) ==
  [s EXCEPT !.full_log_lines = Append(@, line),
            !.log_lines = Tail6(Append(@, line))]

\* A log line: its text, and whether push put a spinner frame in front of it
\* (next_fx_frame; which glyph of the cycle is not tracked).
Raw(text) == [fx |-> FALSE, text |-> text]
Framed(text) == [fx |-> TRUE, text |-> text]

push(s, line) == add_raw(s, Framed(line))

\* ---------- DuelState: distance helpers ----------
\* _target_vis_gap without the clamp that keeps both fighters on the line
TargetVisGap_unclamped(idx, segs) ==
  RoundHalfEven(idx * (segs - 1), NumGates - 1)

TargetVisGap(idx, segs) ==
  iclamp(RoundHalfEven(idx * (segs - 1), NumGates - 1), 3, segs - 3)

PostInitPos(idx, segs) ==
  LET d == TargetVisGap(idx, segs)
      left == Max(0, (segs - d) \div 2 - 1)
  IN  [u \in Ids |-> IF u = "a" THEN left ELSE Min(segs - 1, left + d)]

\* _check_grapple_transition breaking the grapple but not the choke
_check_grapple_transition_hold(s, now) ==
  IF s.grappling /\ now # HANDS
  THEN [add_raw(s, Raw("broken")) EXCEPT !.grappling = FALSE,
                                        !.grapple_just_started = FALSE,
                                        !.grapple_starter_id = <<>>]
  ELSE s

_check_grapple_transition(s, now) ==
  LET s1 == IF s.grappling /\ now # HANDS
            THEN [add_raw(s, Raw("broken")) EXCEPT !.grappling = FALSE,
                                              !.grapple_just_started = FALSE,
                                              !.grapple_starter_id = <<>>]
            ELSE s
  IN  IF ~s1.grappling /\ s1.choking # <<>>
      THEN [add_raw(s1, Raw("released")) EXCEPT !.choking = <<>>,
                                           !.breath = [u \in Ids |-> NoVal],
                                           !.bloodflow = [u \in Ids |-> NoVal]]
      ELSE s1

\* mover_id: a combatant, or "none" for None
_sync_visual_positions(s, mover_id) ==
  IF s.grappling THEN s
  ELSE
    LET target_gap == TargetVisGap(s.range_idx, VisSegments)
        pos_b == s.pos["b"]
        pos_a == IF s.pos["a"] >= pos_b THEN Max(0, pos_b - 2) ELSE s.pos["a"]
        placed(pa, pb) ==
          [s EXCEPT !.pos = [u \in Ids |-> IF u = "a" THEN (IF pa >= pb THEN Max(0, pb - 1) ELSE pa)
                                                   ELSE pb]]
        left == Max(0, (VisSegments - target_gap) \div 2 - 1)
    IN  IF Abs(pos_b - pos_a) = target_gap
        THEN [s EXCEPT !.pos = [u \in Ids |-> IF u = "a" THEN pos_a ELSE pos_b]]
        ELSE IF mover_id = "a"
        THEN placed(iclamp(pos_b - target_gap, 0, VisSegments - 1), pos_b)
        ELSE IF mover_id = "b"
        THEN placed(pos_a, iclamp(pos_a + target_gap, 0, VisSegments - 1))
        ELSE placed(left, iclamp(left + target_gap, 0, VisSegments - 1))

step_range(s, delta, actor_id) ==
  LET now == iclamp(s.range_idx + delta, 0, NumGates - 1)
      s1 == _sync_visual_positions([s EXCEPT !.range_idx = now], actor_id)
  IN  _check_grapple_transition(s1, now)

GateOfGap(gap, segs) ==
  iclamp(RoundHalfEven(gap * (NumGates - 1), Max(1, segs - 1)), 0, NumGates - 1)

\* micro_move with a step toward the opponent not stopped next to them
micro_move_through(s, actor_id, toward_steps) ==
  IF s.grappling THEN s
  ELSE
    LET pos_a == s.pos["a"]
        pos_b == s.pos["b"]
        me_left == (pos_a < pos_b /\ actor_id = "a") \/ (pos_b < pos_a /\ actor_id = "b")
        me0 == IF actor_id = "a" THEN pos_a ELSE pos_b
        me1 == IF toward_steps >= 0
               THEN IF me_left THEN me0 + toward_steps ELSE me0 - toward_steps
               ELSE IF me_left THEN Max(0, me0 - Abs(toward_steps))
                               ELSE Min(VisSegments - 1, me0 + Abs(toward_steps))
        new_a == IF actor_id = "a" THEN me1 ELSE pos_a
        new_b == IF actor_id = "a" THEN pos_b ELSE me1
        new_idx == GateOfGap(Abs(new_b - new_a), VisSegments)
        s1 == [s EXCEPT !.pos = [u \in Ids |-> IF u = "a" THEN new_a ELSE new_b],
                        !.range_idx = new_idx]
    IN  _check_grapple_transition(s1, new_idx)

\* micro_move leaving the range gate as it was
micro_move_keepgate(s, actor_id, toward_steps) ==
  IF s.grappling THEN s
  ELSE
    LET pos_a == s.pos["a"]
        pos_b == s.pos["b"]
        me_left == (pos_a < pos_b /\ actor_id = "a") \/ (pos_b < pos_a /\ actor_id = "b")
        me0 == IF actor_id = "a" THEN pos_a ELSE pos_b
        them == IF actor_id = "a" THEN pos_b ELSE pos_a
        me1 == IF toward_steps >= 0
               THEN IF me_left THEN Min(them - 1, me0 + toward_steps)
                               ELSE Max(them + 1, me0 - toward_steps)
               ELSE IF me_left THEN Max(0, me0 - Abs(toward_steps))
                               ELSE Min(VisSegments - 1, me0 + Abs(toward_steps))
        me2 == IF me_left THEN Min(me1, them - 1) ELSE Max(me1, them + 1)
        new_a == IF actor_id = "a" THEN me2 ELSE pos_a
        new_b == IF actor_id = "a" THEN pos_b ELSE me2
        s1 == [s EXCEPT !.pos = [u \in Ids |-> IF u = "a" THEN new_a ELSE new_b]]
    IN  _check_grapple_transition(s1, s.range_idx)

\* micro_move made while grappling as well
micro_move_ingrapple(s, actor_id, toward_steps) ==
  LET pos_a == s.pos["a"]
      pos_b == s.pos["b"]
      me_left == (pos_a < pos_b /\ actor_id = "a") \/ (pos_b < pos_a /\ actor_id = "b")
      me0 == IF actor_id = "a" THEN pos_a ELSE pos_b
      them == IF actor_id = "a" THEN pos_b ELSE pos_a
      me1 == IF toward_steps >= 0
             THEN IF me_left THEN Min(them - 1, me0 + toward_steps)
                             ELSE Max(them + 1, me0 - toward_steps)
             ELSE IF me_left THEN Max(0, me0 - Abs(toward_steps))
                             ELSE Min(VisSegments - 1, me0 + Abs(toward_steps))
      me2 == IF me_left THEN Min(me1, them - 1) ELSE Max(me1, them + 1)
      new_a == IF actor_id = "a" THEN me2 ELSE pos_a
      new_b == IF actor_id = "a" THEN pos_b ELSE me2
      new_idx == GateOfGap(Abs(new_b - new_a), VisSegments)
      s1 == [s EXCEPT !.pos = [u \in Ids |-> IF u = "a" THEN new_a ELSE new_b],
                      !.range_idx = new_idx]
  IN  _check_grapple_transition(s1, new_idx)

micro_move(s, actor_id, toward_steps) ==
  IF s.grappling THEN s
  ELSE
    LET pos_a == s.pos["a"]
        pos_b == s.pos["b"]
        me_left == (pos_a < pos_b /\ actor_id = "a") \/ (pos_b < pos_a /\ actor_id = "b")
        me0 == IF actor_id = "a" THEN pos_a ELSE pos_b
        them == IF actor_id = "a" THEN pos_b ELSE pos_a
        me1 == IF toward_steps >= 0
               THEN IF me_left THEN Min(them - 1, me0 + toward_steps)
                               ELSE Max(them + 1, me0 - toward_steps)
               ELSE IF me_left THEN Max(0, me0 - Abs(toward_steps))
                               ELSE Min(VisSegments - 1, me0 + Abs(toward_steps))
        me2 == IF me_left THEN Min(me1, them - 1) ELSE Max(me1, them + 1)
        new_a == IF actor_id = "a" THEN me2 ELSE pos_a
        new_b == IF actor_id = "a" THEN pos_b ELSE me2
        new_idx == GateOfGap(Abs(new_b - new_a), VisSegments)
        s1 == [s EXCEPT !.pos = [u \in Ids |-> IF u = "a" THEN new_a ELSE new_b],
                        !.range_idx = new_idx]
    IN  _check_grapple_transition(s1, new_idx)

\* ---------- DuelState: grapple helpers ----------
\* can_grapple without the test of the range gate
can_grapple_anyrange(s) == ~s.grappling

can_grapple(s) == ~s.grappling /\ rngate(s) = HANDS

GrappleGap == 2

\* begin_grapple leaving the two where they stand
begin_grapple_in_place(s, starter_id) ==
  IF ~can_grapple(s) THEN s
  ELSE
    LET s1 == [s EXCEPT !.grappling = TRUE,
                        !.grapple_just_started = TRUE,
                        !.grapple_starter_id = <<starter_id>>,
                        !.grapple_flip = 0,
                        !.turn_id = IF starter_id = "a" THEN 0 ELSE 1]
    IN  add_raw(s1, Raw("grapple"))

begin_grapple(s, starter_id) ==
  IF ~can_grapple(s) THEN s
  ELSE
    LET left == Max(0, (VisSegments - GrappleGap) \div 2 - 1)
        s1 == [s EXCEPT !.grappling = TRUE,
                        !.grapple_just_started = TRUE,
                        !.grapple_starter_id = <<starter_id>>,
                        !.grapple_flip = 0,
                        !.pos = [u \in Ids |-> IF u = "a" THEN left
                                               ELSE Min(VisSegments - 1, left + GrappleGap)],
                        !.turn_id = IF starter_id = "a" THEN 0 ELSE 1]
    IN  add_raw(s1, Raw("grapple"))

\* ---------- DuelState: end-turn / status ticks ----------
\* ExpireOne dropping one entry per call, whatever the tick
ExpireOne_percall(s, uid) ==
  LET exps == s.clearing_expiries[uid]
      kept == IF exps = <<>> THEN <<>> ELSE Tail(exps)
      removed == Len(exps) - Len(kept)
      st0 == s.clearing_stacks[uid]
      st1 == IF removed > 0
             THEN Max(0, (IF st0 = NoVal THEN 0 ELSE st0) - removed)
             ELSE st0
      st2 == IF kept = <<>> /\ (IF st1 = NoVal THEN 0 ELSE st1) = 0 THEN NoVal ELSE st1
  IN  IF exps = <<>> THEN s
      ELSE [s EXCEPT !.clearing_stacks[uid] = st2,
                     !.clearing_expiries[uid] = kept]

ExpireOne(s, uid) ==
  LET exps == s.clearing_expiries[uid]
      kept == SelectSeq(exps, LAMBDA t : t > s.turn_tick)
      removed == Len(exps) - Len(kept)
      st0 == s.clearing_stacks[uid]
      st1 == IF removed > 0
             THEN Max(0, (IF st0 = NoVal THEN 0 ELSE st0) - removed)
             ELSE st0
      st2 == IF kept = <<>> /\ (IF st1 = NoVal THEN 0 ELSE st1) = 0 THEN NoVal ELSE st1
  IN  IF exps = <<>> THEN s
      ELSE [s EXCEPT !.clearing_stacks[uid] = st2,
                     !.clearing_expiries[uid] = kept]

_expire_clearing(s) == ExpireOne(ExpireOne(s, "a"), "b")

MeterGet(m, u) == IF m[u] = NoVal THEN 50 ELSE m[u]

\* _apply_choke_tick taking the breath lost off the hit points as well
_apply_choke_tick_hp(s, db, df) ==
  IF s.choking = <<>> THEN s
  ELSE
    LET choker == s.choking[1]
        target == s.choking[2]
        br == iclamp(MeterGet(s.breath, target) - db, 0, 100)
        bl == iclamp(MeterGet(s.bloodflow, target) - df, 0, 100)
        s1 == [s EXCEPT !.breath[target] = br, !.bloodflow[target] = bl,
                        !.hp[target] = Max(0, @ - db)]
    IN  IF br <= 0 \/ bl <= 0
        THEN add_raw([s1 EXCEPT !.unconscious = @ \cup {target},
                                !.last_hit[target] = <<choker, "strangled">>],
                     Raw("passout"))
        ELSE s1

\* db, df: the random.randint(6,10) and random.randint(3,7) draws
_apply_choke_tick(s, db, df) ==
  IF s.choking = <<>> THEN s
  ELSE
    LET choker == s.choking[1]
        target == s.choking[2]
        br == iclamp(MeterGet(s.breath, target) - db, 0, 100)
        bl == iclamp(MeterGet(s.bloodflow, target) - df, 0, 100)
        s1 == [s EXCEPT !.breath[target] = br, !.bloodflow[target] = bl]
    IN  IF br <= 0 \/ bl <= 0
        THEN add_raw([s1 EXCEPT !.unconscious = @ \cup {target},
                                !.last_hit[target] = <<choker, "strangled">>],
                     Raw("passout"))
        ELSE s1

\* end_turn counting a round at every change of owner
end_turn_rounds(s, db, df) ==
  LET t1 == Xor1(s.turn_id)
      s1 == [s EXCEPT !.turn_id = t1,
                      !.round_no = @ + 1,
                      !.turn_tick = @ + 1,
                      !.grapple_flip = IF s.grappling THEN Xor1(@) ELSE @]
      cur == current(s1)
      s2 == IF cur \in s1.skip_turn_for
            THEN LET t2 == Xor1(s1.turn_id)
                     r == add_raw([s1 EXCEPT !.skip_turn_for = @ \ {cur}], Raw("stagger"))
                 IN  [r EXCEPT !.turn_id = t2,
                               !.round_no = IF t2 = 0 THEN @ + 1 ELSE @,
                               !.turn_tick = @ + 1]
            ELSE s1
  IN  _expire_clearing(_apply_choke_tick(s2, db, df))

\* end_turn skipping the staggered combatant without consuming the flag
end_turn_keepflag(s, db, df) ==
  LET t1 == Xor1(s.turn_id)
      s1 == [s EXCEPT !.turn_id = t1,
                      !.round_no = IF t1 = 0 THEN @ + 1 ELSE @,
                      !.turn_tick = @ + 1,
                      !.grapple_flip = IF s.grappling THEN Xor1(@) ELSE @]
      cur == current(s1)
      s2 == IF cur \in s1.skip_turn_for
            THEN LET t2 == Xor1(s1.turn_id)
                     r == add_raw(s1, Raw("stagger"))
                 IN  [r EXCEPT !.turn_id = t2,
                               !.round_no = IF t2 = 0 THEN @ + 1 ELSE @,
                               !.turn_tick = @ + 1]
            ELSE s1
  IN  _expire_clearing(_apply_choke_tick(s2, db, df))

\* end_turn applying the choke tick once for every turn it advances
end_turn_tickperturn(s, db, df) ==
  LET t1 == Xor1(s.turn_id)
      s1 == [s EXCEPT !.turn_id = t1,
                      !.round_no = IF t1 = 0 THEN @ + 1 ELSE @,
                      !.turn_tick = @ + 1,
                      !.grapple_flip = IF s.grappling THEN Xor1(@) ELSE @]
      cur == current(s1)
      s2 == IF cur \in s1.skip_turn_for
            THEN LET t2 == Xor1(s1.turn_id)
                     r == add_raw([s1 EXCEPT !.skip_turn_for = @ \ {cur}], Raw("stagger"))
                 IN  _apply_choke_tick([r EXCEPT !.turn_id = t2,
                                                 !.round_no = IF t2 = 0 THEN @ + 1 ELSE @,
                                                 !.turn_tick = @ + 1], db, df)
            ELSE s1
  IN  _expire_clearing(_apply_choke_tick(s2, db, df))

end_turn(s, db, df) ==
  LET t1 == Xor1(s.turn_id)
      s1 == [s EXCEPT !.turn_id = t1,
                      !.round_no = IF t1 = 0 THEN @ + 1 ELSE @,
                      !.turn_tick = @ + 1,
                      !.grapple_flip = IF s.grappling THEN Xor1(@) ELSE @]
      cur == current(s1)
      s2 == IF cur \in s1.skip_turn_for
            THEN LET t2 == Xor1(s1.turn_id)
                     r == add_raw([s1 EXCEPT !.skip_turn_for = @ \ {cur}], Raw("stagger"))
                 IN  [r EXCEPT !.turn_id = t2,
                               !.round_no = IF t2 = 0 THEN @ + 1 ELSE @,
                               !.turn_tick = @ + 1]
            ELSE s1
  IN  _expire_clearing(_apply_choke_tick(s2, db, df))

\* ---------- accuracy / damage helpers ----------
\* _ARMOR_FACTORS, in tenths
ArmorFactor10(kind) ==
  CASE kind = "melee" -> 6
    [] kind = "small_ranged" -> 8
    [] kind = "large_ranged" -> 8
    [] kind = "ranged" -> 8
    [] kind = "grenade" -> 5
    [] kind = "none" -> 0
    [] OTHER -> 7

\* apply_armor_reduction with the mitigation not held below the damage
apply_armor_reduction_nofloor(armor, dmg, kind) ==
  LET raw == RoundHalfEven(armor * ArmorFactor10(kind), 10)
      mit == Max(0, raw)
  IN  <<dmg - mit, mit>>

\* returns <<final, mit>>.  The product armor * factor is taken exactly; the
\* float product of the source rounds the same way for every integer armor
\* of magnitude below 45 (45 * 0.70 falls just short of 31.5).
apply_armor_reduction(armor, dmg, kind) ==
  LET raw == RoundHalfEven(armor * ArmorFactor10(kind), 10)
      mit == iclamp(raw, 0, Max(0, dmg - 1))
  IN  <<dmg - mit, mit>>

record_hit(s, attacker_id, target_id, kind) ==
  [s EXCEPT !.last_hit[target_id] = <<attacker_id, kind>>]

armor_kind_from_wclass(wcls) ==
  CASE wcls = "melee" -> "melee"
    [] wcls \in {"pistol", "smg"} -> "small_ranged"
    [] wcls \in {"shotgun", "rifle"} -> "large_ranged"
    [] OTHER -> "ranged"

\* ---------- inventory -> combat resolver ----------
RangeAccMod(label) ==
  CASE label = "Close" -> 10
    [] label = "Near" -> 0
    [] label = "Mid" -> -10
    [] label = "Far" -> -20
    [] label = "Out-of-Range" -> -999
    [] OTHER -> 0

rg_to_loadout_range(rg) ==
  IF rg \in {HANDS, CLOSE} THEN "Close"
  ELSE IF rg = MID THEN "Mid"
  ELSE "Far"

\* combat_loadout._CLASS
ClassRanges(c) ==
  CASE c = "melee" -> {"Close"}
    [] c = "pistol" -> {"Close", "Near", "Mid"}
    [] c = "smg" -> {"Close", "Near"}
    [] c = "shotgun" -> {"Close", "Near"}
    [] c = "rifle" -> {"Near", "Mid", "Far"}
    [] OTHER -> {}

ClassDamage(c) ==
  CASE c = "melee" -> 6
    [] c = "pistol" -> 5
    [] c = "smg" -> 6
    [] c = "shotgun" -> 9
    [] c = "rifle" -> 7
    [] OTHER -> 0

ClassAccuracy(c) ==
  CASE c = "melee" -> 85
    [] c = "pistol" -> 70
    [] c = "smg" -> 65
    [] c = "shotgun" -> 60
    [] c = "rifle" -> 75
    [] OTHER -> 0

\* A kit is [primary, secondary, preferred_slot, mods]; a slot holds a weapon
\* class or "none".  Returns the chosen slot, "none" when nothing matches.
pick_weapon_for_range(range_state, kit) ==
  LET pref == kit.preferred_slot
      alt == IF pref = "secondary" THEN "primary" ELSE "secondary"
      fits(slot) == kit[slot] # "none" /\ range_state \in ClassRanges(kit[slot])
  IN  IF fits(pref) THEN pref
      ELSE IF fits(alt) THEN alt
      ELSE "none"

compute_attack_numbers(kit, range_state) ==
  LET slot == pick_weapon_for_range(range_state, kit)
      found == slot # "none"
      wclass == IF found THEN kit[slot] ELSE "melee"
      name == IF found THEN kit[slot] ELSE "Fists"
      base_acc == IF found THEN ClassAccuracy(wclass) ELSE FistsAccuracy
      base_dmg == IF found THEN ClassDamage(wclass) ELSE FistsDamage
  IN  IF ~found /\ range_state # "Close"
      THEN [ready |-> FALSE, slot |-> "none", name |-> "", wclass |-> "",
            accuracy |-> 0, damage |-> 0]
      ELSE [ready |-> TRUE,
            slot |-> IF found THEN slot ELSE "unarmed",
            name |-> name,
            wclass |-> wclass,
            accuracy |-> Max(5, Min(95, base_acc + kit.mods.accuracy + RangeAccMod(range_state))),
            damage |-> Max(1, base_dmg + kit.mods.damage)]

\* ---------- battlefield ----------
_update_cover_flags(s) ==
  [s EXCEPT !.in_cover = {u \in Ids : iclamp(s.pos[u], 0, VisSegments - 1) \in s.cover_line}]

cover_pct(s, u) == IF u \in s.in_cover THEN CoverPctDefault ELSE 0

\* ---------- views ----------
\* A world w is [s: the DuelState, views: the FinalizeViews created so far,
\* result: the public result banner].
\* _make_view as far as it has an effect: a FinalizeView bound to the
\* finisher's (victor, target) is created when the viewer is the victor.
_make_view(w, viewer_id) ==
  IF w.s.active /\ w.s.finisher # <<>> /\ viewer_id = w.s.finisher[1]
  THEN [w EXCEPT !.views = @ \cup {w.s.finisher}]
  ELSE w

_hud_update_auto(w, viewer_id) == _make_view(w, viewer_id)

\* ---------- actions used by buttons / AI ----------
\* hit chance of a grenade, per mille
_grenade_hit_chance(s, fit_thrower, fit_target) ==
  iclamp(800 - 120 * s.range_idx + 10 * (fit_thrower - fit_target), 100, 950)

_resolve_pending_grenade(w, acted, armor, viewer_id) ==
  LET pend == w.s.grenades_pending[acted]
  IN  IF pend = <<>> THEN w
      ELSE
        LET red == apply_armor_reduction(armor, pend[2], "grenade")
            s1 == [w.s EXCEPT !.hp[acted] = Max(0, @ - red[1])]
            s2 == push(record_hit(s1, pend[1], acted, "grenade"), "detonates")
            s3 == [s2 EXCEPT !.grenades_pending[acted] = <<>>]
        IN  _hud_update_auto([w EXCEPT !.s = s3], viewer_id)

_fists_too_far(s) == ~(s.grappling \/ can_grapple(s))

\* hit probability, per mille
HitChance(s, calc, defender, atk, dfn) ==
  LET p0 == calc.accuracy * 10
      p1 == IF defender \in s.in_cover
            THEN (p0 * (100 - cover_pct(s, defender))) \div 100
            ELSE p0
      p2 == IF defender \in s.hidden THEN 0 ELSE p1
      p3 == p2 + 15 * (atk.combat - dfn.combat) + 10 * (atk.fitness - dfn.fitness)
  IN  iclamp(p3, 0, 980)

\* _attack_once with the damage subtracted but not floored at 0
_attack_once_unclamped(s, attacker, defender, kit, atk, dfn, roll) ==
  LET calc == compute_attack_numbers(kit, rg_to_loadout_range(rngate(s)))
  IN  IF ~calc.ready THEN push(s, "no viable weapon")
      ELSE IF calc.name = "Fists" /\ _fists_too_far(s) THEN push(s, "too far")
      ELSE IF roll <= HitChance(s, calc, defender, atk, dfn)
      THEN LET red == apply_armor_reduction(dfn.armor, calc.damage,
                                            armor_kind_from_wclass(calc.wclass))
               s1 == [s EXCEPT !.hp[defender] = @ - red[1]]
           IN  record_hit(push(s1, "hits"), attacker, defender, "shot")
      ELSE push(s, "misses")

\* kit, atk, dfn: the loadout and stats snapshots; roll: random.random() per mille
\* _attack_once returning without a log line when no weapon is viable
_attack_once_silent(s, attacker, defender, kit, atk, dfn, roll) ==
  LET calc == compute_attack_numbers(kit, rg_to_loadout_range(rngate(s)))
  IN  IF ~calc.ready THEN s
      ELSE IF calc.name = "Fists" /\ _fists_too_far(s) THEN push(s, "too far")
      ELSE IF roll <= HitChance(s, calc, defender, atk, dfn)
      THEN LET red == apply_armor_reduction(dfn.armor, calc.damage,
                                            armor_kind_from_wclass(calc.wclass))
               s1 == [s EXCEPT !.hp[defender] = Max(0, @ - red[1])]
           IN  record_hit(push(s1, "hits"), attacker, defender, "shot")
      ELSE push(s, "misses")

_attack_once(s, attacker, defender, kit, atk, dfn, roll) ==
  LET calc == compute_attack_numbers(kit, rg_to_loadout_range(rngate(s)))
  IN  IF ~calc.ready THEN push(s, "no viable weapon")
      ELSE IF calc.name = "Fists" /\ _fists_too_far(s) THEN push(s, "too far")
      ELSE IF roll <= HitChance(s, calc, defender, atk, dfn)
      THEN LET red == apply_armor_reduction(dfn.armor, calc.damage,
                                            armor_kind_from_wclass(calc.wclass))
               s1 == [s EXCEPT !.hp[defender] = Max(0, @ - red[1])]
           IN  record_hit(push(s1, "hits"), attacker, defender, "shot")
      ELSE push(s, "misses")

\* ---------- inputs: the random draws and the external snapshots ----------
\* random.randint(lo, hi), every value
randint(lo, hi) == lo .. hi
\* random.randint(lo, hi), sampled at its two ends
randint_ends(lo, hi) == {lo, hi}
\* random.random(), per mille, sampled
Rolls == {0, 999}
\* load_player_stats snapshots (combat, fitness, armor)
Stats == {[combat |-> 10, fitness |-> 10, armor |-> a] : a \in {0, 10}}
AtkStats == {[combat |-> 10, fitness |-> 10, armor |-> 0]}
Armors == {st.armor : st \in Stats}
\* get_combatkit snapshots
Kit(p, d) == [primary |-> p, secondary |-> "none", preferred_slot |-> "primary",
              mods |-> [accuracy |-> 0, damage |-> d]]
Kits == {Kit("none", 0), Kit("rifle", 94)}

\* _resolve_pending_grenade over the armor snapshots it may load
Detonations(w, acted, viewer_id) ==
  IF w.s.grenades_pending[acted] = <<>> THEN {w}
  ELSE {_resolve_pending_grenade(w, acted, armor, viewer_id) : armor \in Armors}

\* the ambient choke tick's draws, and end_turn over them
EndTurnSet(s) ==
  IF s.choking = <<>> THEN {end_turn(s, 6, 3)}
  ELSE {end_turn(s, db, df) : db \in randint_ends(6, 10), df \in randint_ends(3, 7)}

\* ---------- helpers to end / offer finisher ----------
FinMsg == Raw("fin")

LastLogIs(s, msg) == s.log_lines # <<>> /\ s.log_lines[Len(s.log_lines)] = msg

\* returns [w, offered]; offered is "a FinalizeView was returned"
_maybe_offer_finisher(w) ==
  LET s == w.s
      win == winner(s)
  IN  IF win = <<>> THEN [w |-> w, offered |-> FALSE]
      ELSE
        LET loser == OtherId(win[1])
        IN  IF loser \in s.unconscious /\ s.active
            THEN LET s1 == IF s.finisher = <<>>
                           THEN [s EXCEPT !.finisher = <<win[1], loser>>]
                           ELSE s
                     s2 == IF ~LastLogIs(s1, FinMsg) THEN add_raw(s1, FinMsg) ELSE s1
                 IN  [w |-> [w EXCEPT !.s = s2, !.views = @ \cup {<<win[1], loser>>}],
                      offered |-> TRUE]
            ELSE [w |-> w, offered |-> FALSE]

_end_if_finished_or_offer(w, viewer_id) ==
  LET o == _maybe_offer_finisher(w)
  IN  IF o.offered THEN o.w
      ELSE
        LET s == w.s
            w1 == IF is_draw(s)
                  THEN [w EXCEPT !.s = push([s EXCEPT !.finisher = <<>>, !.active = FALSE], "draw"),
                                 !.result = <<"draw">>]
                  ELSE IF winner(s) # <<>>
                  THEN [w EXCEPT !.s = push([s EXCEPT !.finisher = <<>>, !.active = FALSE], "wins"),
                                 !.result = <<"win", winner(s)[1]>>]
                  ELSE w
        IN  _hud_update_auto(w1, viewer_id)

\* ---------- the AI ----------
Squeeze(s, sb, sf) ==
  LET choker == s.choking[1]
      target == s.choking[2]
      br == iclamp(MeterGet(s.breath, target) - sb, 0, 100)
      bl == iclamp(MeterGet(s.bloodflow, target) - sf, 0, 100)
      s1 == push([s EXCEPT !.breath[target] = br, !.bloodflow[target] = bl], "tightens")
  IN  IF br <= 0 \/ bl <= 0
      THEN LET s2 == record_hit([s1 EXCEPT !.unconscious = @ \cup {target}],
                                choker, target, "strangled")
               win == winner(s2)
           IN  IF win # <<>>
               THEN LET s3 == [s2 EXCEPT !.finisher = <<win[1], target>>]
                    IN  IF ~LastLogIs(s3, FinMsg) THEN add_raw(s3, FinMsg) ELSE s3
               ELSE s2
      ELSE s1

Wrestle(s, me, foe, dmg, gain) ==
  LET s1 == [s EXCEPT !.hp[foe] = Max(0, @ - dmg)]
      s2 == IF gain
            THEN [s1 EXCEPT !.positioning[me] = iclamp(@ + 10, 0, 100),
                            !.positioning[foe] = iclamp(@ - 10, 0, 100)]
            ELSE s1
  IN  record_hit(push(s2, "wrestles"), me, foe, "wrestle")

Punch(s, me, foe, dmg) ==
  record_hit(push([s EXCEPT !.hp[foe] = Max(0, @ - dmg)], "punches"), me, foe, "punch")

\* chance to break free, per mille
BreakChance(s, me, foe) ==
  iclamp(400 + 5 * (s.positioning[me] - s.positioning[foe]), 100, 900)

BreakFree(s, me, foe, roll) ==
  IF roll <= BreakChance(s, me, foe)
  THEN push([s EXCEPT !.grappling = FALSE, !.choking = <<>>], "breaks free")
  ELSE push([s EXCEPT !.positioning[me] = iclamp(s.positioning[me] - 5, 0, 100),
                      !.positioning[foe] = iclamp(s.positioning[foe] + 5, 0, 100)],
            "fails to break free")

AiAdvance(s, ai, step) == push(_update_cover_flags(micro_move(s, ai, step)), "advances")

AiRanged(s, ai, foe, kit, atk, dfn, roll, step) ==
  LET calc == compute_attack_numbers(kit, rg_to_loadout_range(rngate(s)))
  IN  IF ~calc.ready THEN AiAdvance(s, ai, step)
      ELSE IF calc.name = "Fists" /\ _fists_too_far(s) THEN AiAdvance(s, ai, step)
      ELSE IF roll <= HitChance(s, calc, foe, atk, dfn)
      THEN LET red == apply_armor_reduction(dfn.armor, calc.damage,
                                            armor_kind_from_wclass(calc.wclass))
               s1 == [s EXCEPT !.hp[foe] = Max(0, @ - red[1])]
           IN  record_hit(push(s1, "hits"), ai, foe, "shot")
      ELSE push(s, "misses")

\* the AI's move, before its end_turn: every DuelState it can produce
AiMoveSet(s) ==
  LET ai == current(s)
      foe == other(s)
  IN  IF s.choking # <<>>
      THEN IF ai = s.choking[1]
           THEN {Squeeze(s, sb, sf) : sb \in randint_ends(8, 12), sf \in randint_ends(4, 8)}
           ELSE {push(s, "struggles")}
      ELSE IF s.grappling
      THEN {Wrestle(s, ai, foe, dmg, gain) : dmg \in randint(1, 2), gain \in BOOLEAN}
           \cup {Punch(s, ai, foe, dmg) : dmg \in randint_ends(1, 5)}
           \cup {BreakFree(s, ai, foe, roll) : roll \in Rolls}
      ELSE {AiRanged(s, ai, foe, kit, atk, dfn, roll, step) :
              kit \in Kits, atk \in AtkStats, dfn \in Stats,
              roll \in Rolls, step \in randint(1, 2)}

\* _maybe_ai_take_turn returning after the AI's move without end_turn
_maybe_ai_take_turn_noend(w, viewer_id) ==
  IF ~w.s.active \/ ~w.s.is_ai[current(w.s)] THEN {w}
  ELSE
    LET o == _maybe_offer_finisher(w)
    IN  IF o.offered THEN {o.w}
        ELSE UNION {
          {_hud_update_auto([w1 EXCEPT !.s = s2], viewer_id) : s2 \in AiMoveSet(w1.s)}
          : w1 \in Detonations(w, current(w.s), viewer_id)}

\* _maybe_ai_take_turn ending the AI's turn twice
_maybe_ai_take_turn_twice(w, viewer_id) ==
  IF ~w.s.active \/ ~w.s.is_ai[current(w.s)] THEN {w}
  ELSE
    LET o == _maybe_offer_finisher(w)
    IN  IF o.offered THEN {o.w}
        ELSE UNION {
          {_hud_update_auto([w1 EXCEPT !.s = s4], viewer_id) :
             s4 \in UNION {EndTurnSet(s3) :
                             s3 \in UNION {EndTurnSet(s2) : s2 \in AiMoveSet(w1.s)}}}
          : w1 \in Detonations(w, current(w.s), viewer_id)}

_maybe_ai_take_turn(w, viewer_id) ==
  IF ~w.s.active \/ ~w.s.is_ai[current(w.s)] THEN {w}
  ELSE
    LET o == _maybe_offer_finisher(w)
    IN  IF o.offered THEN {o.w}
        ELSE UNION {
          {_hud_update_auto([w1 EXCEPT !.s = s3], viewer_id) :
             s3 \in UNION {EndTurnSet(s2) : s2 \in AiMoveSet(w1.s)}}
          : w1 \in Detonations(w, current(w.s), viewer_id)}

\* what every turn-ending button handler does after its own effect:
\* end_turn, the AI's inline turn, outcome resolution
Closing(w, viewer_id) ==
  {_end_if_finished_or_offer(w2, viewer_id) :
     w2 \in UNION {_maybe_ai_take_turn([w EXCEPT !.s = s1], viewer_id) :
                     s1 \in EndTurnSet(w.s)}}

\* chance to secure a choke, per mille
ChokeChance(s, me, foe) ==
  iclamp(500 + 5 * (s.positioning[me] - s.positioning[foe]), 200, 850)

_finish_summary(s) == IF winner(s) = <<>> THEN <<"draw">> ELSE <<"win", winner(s)[1]>>

\* ---------- the guards of the views ----------
\* DuelMainView._is_my_turn without the test of state.active
MainIsMyTurn_noactive(s, u) == u = current(s)

\* DuelMainView._is_my_turn refusing while the two are grappling
MainIsMyTurn_ranged(s, u) == s.active /\ u = current(s) /\ ~s.grappling

\* DuelMainView._is_my_turn
MainIsMyTurn(s, u) == s.active /\ u = current(s)

\* GrappleView._is_my_turn without the test of the grapple phase
GrappleIsMyTurn_nophase(s, u) == s.active /\ u = current(s)

\* GrappleView._is_my_turn
GrappleIsMyTurn(s, u) ==
  /\ s.active
  /\ u = current(s)
  /\ ~(~s.grappling \/ s.choking # <<>>)

\* ChokeView._is_my_turn without the test of the turn owner
ChokeIsMyTurn_anyturn(s, u) ==
  /\ s.active
  /\ ~(s.choking = <<>> \/ s.choking[1] # u)

\* ChokeView._is_my_turn without the test of who holds the choke
ChokeIsMyTurn_anyone(s, u) == s.active /\ u = current(s)

\* ChokeView._is_my_turn
ChokeIsMyTurn(s, u) ==
  /\ s.active
  /\ u = current(s)
  /\ ~(s.choking = <<>> \/ s.choking[1] # u)

\* FinalizeView._is_victor, for the view v = (victor_id, target_id)
IsVictor(s, v, u) == s.active /\ u = v[1]

\* ---------- the button handlers: every world a call can produce ----------
\* {} stands for the early return after a refusing reply.
btn_advance(w, u) ==
  IF ~MainIsMyTurn(w.s, u) THEN {}
  ELSE UNION {
    Closing([w1 EXCEPT !.s = push(_update_cover_flags(micro_move(w1.s, u, steps)), "advances")], u)
    : steps \in randint(1, 2), w1 \in Detonations(w, current(w.s), u)}

btn_attack(w, u) ==
  IF ~MainIsMyTurn(w.s, u) THEN {}
  ELSE UNION {
    Closing([w1 EXCEPT !.s = _attack_once(w1.s, current(w1.s), other(w1.s), kit, atk, dfn, roll)], u)
    : w1 \in Detonations(w, current(w.s), u),
      kit \in Kits, atk \in AtkStats, dfn \in Stats, roll \in Rolls}

Throw(s, thrower, target, has_grenade, fit_thrower, fit_target, roll, dmg) ==
  IF ~has_grenade THEN push(s, "has none")
  ELSE IF roll <= _grenade_hit_chance(s, fit_thrower, fit_target)
  THEN push([s EXCEPT !.grenades_pending[target] = <<thrower, dmg>>], "lobs")
  ELSE push(s, "misses the mark")

btn_grenade(w, u) ==
  IF ~MainIsMyTurn(w.s, u) THEN {}
  ELSE UNION {
    Closing([w EXCEPT !.s = Throw(w.s, current(w.s), other(w.s), has,
                                  st.fitness, su.fitness, roll, dmg)], u)
    : has \in BOOLEAN, st \in AtkStats, su \in AtkStats, roll \in Rolls,
      dmg \in randint_ends(30, 40)}

btn_disengage(w, u) ==
  IF ~MainIsMyTurn(w.s, u) THEN {}
  ELSE UNION {
    Closing([w1 EXCEPT !.s = push(_update_cover_flags(micro_move(w1.s, u, -back)), "retreats")], u)
    : back \in randint_ends(1, 3), w1 \in Detonations(w, current(w.s), u)}

btn_grapple(w, u) ==
  IF ~MainIsMyTurn(w.s, u) THEN {}
  ELSE IF ~can_grapple(w.s) THEN {}
  ELSE {_hud_update_auto([w EXCEPT !.s = begin_grapple(w.s, u)], u)}

Choke(s, me, foe, roll) ==
  IF roll <= ChokeChance(s, me, foe)
  THEN push([s EXCEPT !.choking = <<me, foe>>,
                      !.breath[foe] = MeterGet(s.breath, foe),
                      !.bloodflow[foe] = MeterGet(s.bloodflow, foe)], "secures a choke")
  ELSE push(s, "fails")

btn_choke(w, u) ==
  IF ~GrappleIsMyTurn(w.s, u) THEN {}
  ELSE UNION {Closing([w EXCEPT !.s = Choke(w.s, current(w.s), other(w.s), roll)], u) :
                roll \in Rolls}

btn_wrestle(w, u) ==
  IF ~GrappleIsMyTurn(w.s, u) THEN {}
  ELSE UNION {Closing([w EXCEPT !.s = Wrestle(w.s, current(w.s), other(w.s), dmg, gain)], u) :
                dmg \in randint(1, 2), gain \in BOOLEAN}

btn_punch(w, u) ==
  IF ~GrappleIsMyTurn(w.s, u) THEN {}
  ELSE UNION {Closing([w EXCEPT !.s = Punch(w.s, current(w.s), other(w.s), dmg)], u) :
                dmg \in randint_ends(1, 5)}

btn_breakfree(w, u) ==
  IF ~GrappleIsMyTurn(w.s, u) THEN {}
  ELSE UNION {Closing([w EXCEPT !.s = BreakFree(w.s, current(w.s), other(w.s), roll)], u) :
                roll \in Rolls}

btn_squeeze(w, u) ==
  IF ~ChokeIsMyTurn(w.s, u) THEN {}
  ELSE IF w.s.choking = <<>> THEN {_hud_update_auto(w, u)}
  ELSE UNION {Closing([w EXCEPT !.s = Squeeze(w.s, sb, sf)], u) :
                sb \in randint_ends(8, 12), sf \in randint_ends(4, 8)}

\* btn_letgo bringing the released target round
btn_letgo_revive(w, u) ==
  IF ~ChokeIsMyTurn(w.s, u) THEN {}
  ELSE Closing([w EXCEPT !.s = push([w.s EXCEPT !.unconscious = @ \ {w.s.choking[2]},
                                               !.choking = <<>>], "releases")], u)

btn_letgo(w, u) ==
  IF ~ChokeIsMyTurn(w.s, u) THEN {}
  ELSE Closing([w EXCEPT !.s = push([w.s EXCEPT !.choking = <<>>], "releases")], u)

\* the buttons of the FinalizeView v = (victor_id, target_id)
btn_mercy(w, v, u) ==
  IF ~IsVictor(w.s, v, u) THEN {}
  ELSE
    LET s1 == add_raw(w.s, Raw("mercy"))
        s2 == [s1 EXCEPT !.last_hit[v[2]] = <<v[1], "mercy">>,
                         !.finisher = <<>>,
                         !.active = FALSE]
    IN  {_hud_update_auto([w EXCEPT !.s = s2, !.result = <<"spared">>], u)}

\* btn_beat without the end of the duel at 0 hit points
btn_beat_on(w, v, u) ==
  IF ~IsVictor(w.s, v, u) THEN {}
  ELSE
    {LET s1 == [w.s EXCEPT !.hp[v[2]] = Max(0, @ - dmg)]
         s2 == record_hit(push(s1, "beats"), v[1], v[2], "punch")
     IN  _hud_update_auto([w EXCEPT !.s = s2], u)
     : dmg \in randint_ends(1, 7)}

btn_beat(w, v, u) ==
  IF ~IsVictor(w.s, v, u) THEN {}
  ELSE
    {LET s1 == [w.s EXCEPT !.hp[v[2]] = Max(0, @ - dmg)]
         s2 == record_hit(push(s1, "beats"), v[1], v[2], "punch")
         w3 == IF s2.hp[v[2]] <= 0
               THEN LET s3 == [s2 EXCEPT !.finisher = <<>>, !.active = FALSE]
                    IN  [w EXCEPT !.s = s3, !.result = _finish_summary(s3)]
               ELSE [w EXCEPT !.s = s2]
     IN  _hud_update_auto(w3, u)
     : dmg \in randint_ends(1, 7)}

\* btn_kidnap leaving the duel running
btn_kidnap_open(w, v, u) ==
  IF ~IsVictor(w.s, v, u) THEN {}
  ELSE
    LET s1 == add_raw(w.s, Raw("kidnap"))
        s2 == [s1 EXCEPT !.last_hit[v[2]] = <<v[1], "kidnap">>,
                         !.finisher = <<>>]
    IN  {_hud_update_auto([w EXCEPT !.s = s2, !.result = <<"kidnapped">>], u)}

btn_kidnap(w, v, u) ==
  IF ~IsVictor(w.s, v, u) THEN {}
  ELSE
    LET s1 == add_raw(w.s, Raw("kidnap"))
        s2 == [s1 EXCEPT !.last_hit[v[2]] = <<v[1], "kidnap">>,
                         !.finisher = <<>>,
                         !.active = FALSE]
    IN  {_hud_update_auto([w EXCEPT !.s = s2, !.result = <<"kidnapped">>], u)}

\* DuelMainView.on_timeout.  It hands the client, not an interaction, to
\* _update_public_result, whose two attempts to reach inter.channel both fail
\* inside their own try blocks: the banner stays as it was.
on_timeout(w) ==
  IF ~w.s.active THEN {}
  ELSE {[w EXCEPT !.s = push([w.s EXCEPT !.active = FALSE], "timed out")]}

\* /duel reset, on a registered duel
duel_reset(w) ==
  {[w EXCEPT !.s = push([w.s EXCEPT !.finisher = <<>>, !.active = FALSE], "reset"),
             !.result = <<"aborted">>]}

\* ---------- duel creation ----------
\* DuelState(...) ; _seed_combat_log ; _decide_initiative ; _init_battlefield
NewDuel(ai, first, cover) ==
  _update_cover_flags(
  [hp |-> [u \in Ids |-> StartHp],
   is_ai |-> [u \in Ids |-> u = "b" /\ ai],
   range_idx |-> MID,
   pos |-> PostInitPos(MID, VisSegments),
   turn_id |-> first,
   log_lines |-> <<Raw("fill"), Raw("fill"), Raw("fill"), Raw("fill"), Raw("fill"), Raw("init")>>,
   full_log_lines |-> <<Raw("fill"), Raw("fill"), Raw("fill"), Raw("fill"), Raw("fill"), Raw("init")>>,
   active |-> TRUE,
   round_no |-> 1,
   grappling |-> FALSE,
   disarmed |-> [u \in Ids |-> {}],
   positioning |-> [u \in Ids |-> 50],
   choking |-> <<>>,
   breath |-> [u \in Ids |-> NoVal],
   bloodflow |-> [u \in Ids |-> NoVal],
   unconscious |-> {},
   clearing_stacks |-> [u \in Ids |-> NoVal],
   clearing_expiries |-> [u \in Ids |-> <<>>],
   turn_tick |-> 0,
   hidden |-> {},
   in_cover |-> {},
   cover_line |-> cover,
   grenades_pending |-> [u \in Ids |-> <<>>],
   skip_turn_for |-> {},
   last_hit |-> [u \in Ids |-> <<>>],
   grapple_just_started |-> FALSE,
   grapple_starter_id |-> <<>>,
   grapple_flip |-> 0,
   finisher |-> <<>>])

\* the cover tiles _init_battlefield may lay down
CoverLayouts == {{8, 16}}

\* /duel start
duel_start(first, cover) ==
  {[s |-> NewDuel(FALSE, first, cover), views |-> {}, result |-> <<>>]}

\* /duel ai: the AI moves at once when it won the initiative
duel_ai(first, cover) ==
  _maybe_ai_take_turn([s |-> NewDuel(TRUE, first, cover), views |-> {}, result |-> <<>>], "a")

Created ==
  UNION {duel_start(first, cover) \cup duel_ai(first, cover) :
           first \in {0, 1}, cover \in CoverLayouts}


\* ---------- later stages of a duel ----------
\* A duel is followed from its creation and from three later stages.  Each
\* stage is computed by playing the handlers above from a created duel, so it
\* is a world the program reaches.
Play(S, R(_)) == UNION {R(w) : w \in S}

\* a choke is held and has worn the target's meters down to br and bl
WornTo(w, br, bl) ==
  /\ w.s.active
  /\ w.s.choking # <<>>
  /\ w.s.choking[2] \notin w.s.unconscious
  /\ w.s.breath[w.s.choking[2]] <= br
  /\ w.s.bloodflow[w.s.choking[2]] <= bl

\* a PvP duel closes to hands-on range, "a" wounded by a shot on the way
Opened == duel_start(0, {8, 16})
Closing1 == Play(Opened, LAMBDA w : btn_advance(w, "a"))
Wounded == {w \in Play(Closing1, LAMBDA w : btn_attack(w, "b")) : w.s.hp["a"] \in 1 .. 99}
Closing2 == Play(Wounded, LAMBDA w : btn_advance(w, "a"))
Closing3 == Play(Closing2, LAMBDA w : btn_advance(w, "b"))
Closing4 == Play(Closing3, LAMBDA w : btn_advance(w, "a"))
Closing5 == Play(Closing4, LAMBDA w : btn_advance(w, "b"))
Closing6 == Play(Closing5, LAMBDA w : btn_advance(w, "a"))
AtHands == {w \in Closing6 : can_grapple(w.s) /\ w.s.pos = [a |-> 12, b |-> 14]}

\* "b" grapples "a" and holds a choke until it is about to put "a" out
Grappled == Play(AtHands, LAMBDA w : btn_grapple(w, "b"))
Choked == Play(Grappled, LAMBDA w : btn_choke(w, "b"))
Struggled == Play(Choked, LAMBDA w : btn_advance(w, "a"))
Squeezed == Play(Struggled, LAMBDA w : btn_squeeze(w, "b"))
InChoke == {w \in Squeezed : WornTo(w, 8, 21)}

\* "a" goes out, "b" lets go without choosing a fate, and "a" in turn holds
\* a choke until it is about to put "b" out
PassedOut == {w \in Play(InChoke, LAMBDA w : btn_advance(w, "a")) : "a" \in w.s.unconscious}
LetGo == Play(PassedOut, LAMBDA w : btn_letgo(w, "b"))
ChokedBack == Play(LetGo, LAMBDA w : btn_choke(w, "a"))
StruggledBack == Play(ChokedBack, LAMBDA w : btn_advance(w, "b"))
SqueezedBack == Play(StruggledBack, LAMBDA w : btn_squeeze(w, "a"))
Reversed == {w \in SqueezedBack : WornTo(w, 8, 21)}

Stages == Created \cup AtHands \cup InChoke \cup Reversed

\* two more PvP stages and two stages of a duel against the AI ("b"), for the
\* runs that start further on: the two have backed away to the fourth gate;
\* the human has closed on the AI to hands-on range, neither hurt; the human
\* has grappled the AI and holds a choke that two ambient ticks have worn
\* down as far as they can
Parted ==
  {w \in Play(Play(Play(Opened, LAMBDA w : btn_disengage(w, "a")),
                    LAMBDA w : btn_disengage(w, "b")),
               LAMBDA w : btn_disengage(w, "a")) : w.s.range_idx = 3}
AiAtHands ==
  {w \in Play({w2 \in Play({w1 \in Play({w0 \in Created : w0.s.is_ai["b"]},
                                        LAMBDA w : btn_advance(w, "a")) :
                              w1.s.hp["a"] = StartHp},
                            LAMBDA w : btn_advance(w, "a")) :
                  w2.s.hp["a"] = StartHp},
               LAMBDA w : btn_advance(w, "a")) :
     /\ w.s.hp = [u \in Ids |-> StartHp]
     /\ w.s.active
     /\ can_grapple(w.s)
     /\ w.s.pos = [a |-> 11, b |-> 13]}
AiChoked ==
  {w \in Play(Play(AiAtHands, LAMBDA w : btn_grapple(w, "a")),
               LAMBDA w : btn_choke(w, "a")) :
     WornTo(w, 30, 36)}

\* ---------- the running duel ----------
\* state: the DuelState; views: the FinalizeViews handed out; result: the
\* public result banner; registered: the duel is in _DUEL_BY_CHANNEL;
\* last: the latest interaction (its operation, its caller, whether it got
\* past the guards); steps: accepted interactions so far in this run.
VARIABLES state, views, result, registered, last, steps

vars == <<state, views, result, registered, last, steps>>

W == [s |-> state, views |-> views, result |-> result]

Init ==
  /\ \E w \in Stages :
       /\ state = w.s
       /\ views = w.views
       /\ result = w.result
  /\ registered = TRUE
  /\ last = [op |-> "create", by |-> "a", ok |-> TRUE]
  /\ steps = 0

Commit(w, op, u) ==
  /\ state' = w.s
  /\ views' = w.views
  /\ result' = w.result
  /\ last' = [op |-> op, by |-> u, ok |-> TRUE]
  /\ steps' = steps + Max(1, w.s.turn_tick - state.turn_tick)

Refuse(op, u) ==
  /\ last' = [op |-> op, by |-> u, ok |-> FALSE]
  /\ UNCHANGED <<state, views, result, registered, steps>>

\* A refused interaction changes nothing but `last`, so every run goes on
\* from the world as the latest accepted interaction left it.
InTime == last.ok /\ steps < Horizon

\* an interaction with a view: accepted is "got past the guards", R is what
\* the handler can produce.  The AI's user_id is made up by /duel ai and
\* belongs to no user, so no interaction comes from it.
Interact(op, u, accepted, R) ==
  /\ InTime
  /\ ~state.is_ai[u]
  /\ IF accepted THEN \E w \in R : Commit(w, op, u) ELSE Refuse(op, u)
  /\ UNCHANGED registered

advance(u) == Interact("advance", u, MainIsMyTurn(state, u), btn_advance(W, u))
attack(u) == Interact("attack", u, MainIsMyTurn(state, u), btn_attack(W, u))
throwGrenade(u) == Interact("throwGrenade", u, MainIsMyTurn(state, u), btn_grenade(W, u))
disengage(u) == Interact("disengage", u, MainIsMyTurn(state, u), btn_disengage(W, u))
beginGrapple(u) ==
  Interact("beginGrapple", u, MainIsMyTurn(state, u) /\ can_grapple(state), btn_grapple(W, u))
choke(u) == Interact("choke", u, GrappleIsMyTurn(state, u), btn_choke(W, u))
wrestle(u) == Interact("wrestle", u, GrappleIsMyTurn(state, u), btn_wrestle(W, u))
punch(u) == Interact("punch", u, GrappleIsMyTurn(state, u), btn_punch(W, u))
breakFree(u) == Interact("breakFree", u, GrappleIsMyTurn(state, u), btn_breakfree(W, u))
squeeze(u) == Interact("squeeze", u, ChokeIsMyTurn(state, u), btn_squeeze(W, u))
letGo(u) == Interact("letGo", u, ChokeIsMyTurn(state, u), btn_letgo(W, u))
mercy(v, u) == Interact("mercy", u, IsVictor(state, v, u), btn_mercy(W, v, u))
beat(v, u) == Interact("beat", u, IsVictor(state, v, u), btn_beat(W, v, u))
kidnap(v, u) == Interact("kidnap", u, IsVictor(state, v, u), btn_kidnap(W, v, u))

\* a view times out; an inactive duel is left alone
timeout ==
  /\ InTime
  /\ \E w \in on_timeout(W) : Commit(w, "timeout", "a")
  /\ UNCHANGED registered

reset(u) ==
  /\ InTime
  /\ ~state.is_ai[u]
  /\ IF registered
     THEN (\E w \in duel_reset(W) : Commit(w, "reset", u)) /\ registered' = FALSE
     ELSE Refuse("reset", u)

Next ==
  \/ \E u \in Ids : advance(u)
  \/ \E u \in Ids : attack(u)
  \/ \E u \in Ids : throwGrenade(u)
  \/ \E u \in Ids : disengage(u)
  \/ \E u \in Ids : beginGrapple(u)
  \/ \E u \in Ids : choke(u)
  \/ \E u \in Ids : wrestle(u)
  \/ \E u \in Ids : punch(u)
  \/ \E u \in Ids : breakFree(u)
  \/ \E u \in Ids : squeeze(u)
  \/ \E u \in Ids : letGo(u)
  \/ \E v \in views : \E u \in Ids : mercy(v, u)
  \/ \E v \in views : \E u \in Ids : beat(v, u)
  \/ \E v \in views : \E u \in Ids : kidnap(v, u)
  \/ timeout
  \/ \E u \in Ids : reset(u)

Spec == Init /\ [][Next]_vars

\* ---------- the duel from further on ----------
\* The same interactions, on a duel as it was created or in one of the
\* further stages.
WideInit ==
  /\ \E w \in Created \cup Parted \cup AiAtHands \cup AiChoked :
       /\ state = w.s
       /\ views = w.views
       /\ result = w.result
  /\ registered = TRUE
  /\ last = [op |-> "create", by |-> "a", ok |-> TRUE]
  /\ steps = 0

WideSpec == WideInit /\ [][Next]_vars

\* ---------- the distance line on its own ----------
\* DuelState.micro_move called directly, any number of times, on a duel as
\* /duel start or /duel ai left it: by either combatant, 1..3 steps toward
\* the opponent or away.
MoveSteps == {-3, -2, -1, 1, 2, 3}

MoveInit == Init /\ state.turn_tick <= 1 /\ ~state.grappling

microMove(u) ==
  /\ \E k \in MoveSteps : state' = micro_move(state, u, k)
  /\ last' = [op |-> "microMove", by |-> u, ok |-> TRUE]
  /\ UNCHANGED <<views, result, registered, steps>>

MoveNext == \E u \in Ids : microMove(u)

MoveSpec == MoveInit /\ [][MoveNext]_vars

\* ---------- the range gate on its own ----------
\* DuelState.step_range and DuelState.micro_move called directly on a duel
\* in any of its stages: the two operations that set range_idx.
RangeDeltas == {-2, -1, 1, 2}

stepRange(u) ==
  /\ \E delta \in RangeDeltas : state' = step_range(state, delta, u)
  /\ last' = [op |-> "stepRange", by |-> u, ok |-> TRUE]
  /\ UNCHANGED <<views, result, registered, steps>>

RangeNext ==
  \/ \E u \in Ids \cup {"none"} : stepRange(u)
  \/ \E u \in Ids : microMove(u)

RangeSpec == Init /\ [][RangeNext]_vars

\* ---------- the duel with stagger flags ----------
\* Nothing in these sources puts a combatant into skip_turn_for: the field is
\* there for a stagger effect to set.  Here a duel in any stage is given any
\* set of flags, and besides the buttons DuelState.end_turn is called on its
\* own.
TurnInit ==
  /\ \E w \in Stages : \E flags \in SUBSET Ids :
       /\ state = [w.s EXCEPT !.skip_turn_for = flags]
       /\ views = w.views
       /\ result = w.result
  /\ registered = TRUE
  /\ last = [op |-> "create", by |-> "a", ok |-> TRUE]
  /\ steps = 0

endTurn ==
  /\ InTime
  /\ \E s \in EndTurnSet(state) :
       /\ state' = s
       /\ steps' = steps + (s.turn_tick - state.turn_tick)
  /\ last' = [op |-> "endTurn", by |-> current(state), ok |-> TRUE]
  /\ UNCHANGED <<views, result, registered>>

TurnSpec == TurnInit /\ [][Next \/ endTurn]_vars

\* ---------- clearing stacks ----------
\* Nothing in these sources fills clearing_stacks or clearing_expiries: the
\* fields are there for a clearing effect to set.  Here a new duel is given
\* any stack counts and expiry ticks, and DuelState._expire_clearing is
\* called on its own, any number of times, between the ends of turns.
ClearInit ==
  LET Ticks == 0 .. MaxExpiry
      Lists == {<<>>} \cup {<<t>> : t \in Ticks} \cup {<<t, u>> : t \in Ticks, u \in Ticks}
      Counts == {NoVal} \cup (0 .. MaxStack)
  IN  /\ \E w \in Opened : \E st \in [Ids -> Counts] : \E ex \in [Ids -> Lists] :
            /\ state = [w.s EXCEPT !.clearing_stacks = st, !.clearing_expiries = ex]
            /\ views = w.views
            /\ result = w.result
      /\ registered = TRUE
      /\ last = [op |-> "create", by |-> "a", ok |-> TRUE]
      /\ steps = 0

\* last.removed: how many expiry entries the call took off the two lists
expire ==
  /\ state' = _expire_clearing(state)
  /\ last' = [op |-> "expire", by |-> current(state), ok |-> TRUE,
              removed |-> Len(state.clearing_expiries["a"]) - Len(state'.clearing_expiries["a"])
                          + Len(state.clearing_expiries["b"]) - Len(state'.clearing_expiries["b"])]
  /\ UNCHANGED <<views, result, registered, steps>>

ClearSpec == ClearInit /\ [][expire \/ endTurn]_vars

\* ---------- the log on its own ----------
\* The log operations on a DuelState as constructed, its log still empty:
\* /duel start and /duel ai seed the log and write the initiative line, in
\* that order and once; push and add_raw follow in any order.  replace_last
\* has no caller in these sources and is taken at any point.  steps is the
\* place in the creation sequence: 0 constructed, 1 seeded, 2 initiative
\* written.
LogInit ==
  /\ \E w \in Opened :
       /\ state = [w.s EXCEPT !.log_lines = <<>>, !.full_log_lines = <<>>]
       /\ views = w.views
       /\ result = w.result
  /\ registered = TRUE
  /\ last = [op |-> "construct", by |-> "a", ok |-> TRUE]
  /\ steps = 0

\* _seed_combat_log with a full window of filler rows
seedLog_full ==
  /\ steps = 0
  /\ state' = IF state.log_lines = <<>>
              THEN [state EXCEPT !.log_lines = @ \o [i \in 1 .. LogVisible |-> Raw("fill")],
                                 !.full_log_lines = @ \o [i \in 1 .. LogVisible |-> Raw("fill")]]
              ELSE state
  /\ steps' = 1
  /\ last' = [op |-> "seed", by |-> "a", ok |-> TRUE]
  /\ UNCHANGED <<views, result, registered>>

seedLog ==
  /\ steps = 0
  /\ state' = IF state.log_lines = <<>>
              THEN [state EXCEPT !.log_lines = @ \o [i \in 1 .. LogVisible - 1 |-> Raw("fill")],
                                 !.full_log_lines = @ \o [i \in 1 .. LogVisible - 1 |-> Raw("fill")]]
              ELSE state
  /\ steps' = 1
  /\ last' = [op |-> "seed", by |-> "a", ok |-> TRUE]
  /\ UNCHANGED <<views, result, registered>>

\* _decide_initiative: the line goes to the window, then the window's last
\* line to the full log; neither is cut
initiative ==
  /\ steps = 1
  /\ \E first \in {0, 1} :
       LET lines == Append(state.log_lines, Raw("init"))
       IN  state' = [state EXCEPT !.turn_id = first,
                                  !.log_lines = lines,
                                  !.full_log_lines = Append(@, lines[Len(lines)])]
  /\ steps' = 2
  /\ last' = [op |-> "initiative", by |-> "a", ok |-> TRUE]
  /\ UNCHANGED <<views, result, registered>>

pushLine ==
  /\ steps = 2
  /\ Len(state.full_log_lines) < MaxLog
  /\ \E text \in {"hits", "misses"} : state' = push(state, text)
  /\ last' = [op |-> "push", by |-> "a", ok |-> TRUE]
  /\ UNCHANGED <<views, result, registered, steps>>

addRaw ==
  /\ steps = 2
  /\ Len(state.full_log_lines) < MaxLog
  /\ \E text \in {"hits", "misses"} : state' = add_raw(state, Raw(text))
  /\ last' = [op |-> "add_raw", by |-> "a", ok |-> TRUE]
  /\ UNCHANGED <<views, result, registered, steps>>

replaceLast ==
  /\ \E text \in {"hits", "misses"} :
       state' = [state EXCEPT
                   !.log_lines = IF @ # <<>> THEN [@ EXCEPT ![Len(@)] = Raw(text)]
                                 ELSE <<Raw(text)>>,
                   !.full_log_lines = IF @ # <<>> THEN [@ EXCEPT ![Len(@)] = Raw(text)]
                                      ELSE <<Raw(text)>>]
  /\ last' = [op |-> "replace_last", by |-> "a", ok |-> TRUE]
  /\ UNCHANGED <<views, result, registered, steps>>

LogSpec == LogInit /\ [][seedLog \/ initiative \/ pushLine \/ addRaw \/ replaceLast]_vars

\* ---------- the helpers on their own ----------
\* apply_armor_reduction and DuelState._target_vis_gap called directly, any
\* number of times, beside a new duel they leave as it is.  last holds the
\* latest call: its arguments and what it returned.
CallInit == Init /\ state \in {w.s : w \in Opened}

\* armor: any integer of magnitude up to MaxArmor; dmg: 1 .. MaxDamage, or
\* the 35 of a grenade (random.randint(30, 40)); kind: the keys of
\* _ARMOR_FACTORS and one that is not a key
reduceArmor ==
  /\ \E armor \in -MaxArmor .. MaxArmor : \E dmg \in (1 .. MaxDamage) \cup {35} :
     \E kind \in {"melee", "small_ranged", "large_ranged", "ranged", "grenade", "none", "blunt"} :
       last' = [op |-> "apply_armor_reduction", by |-> "a", ok |-> TRUE,
                armor |-> armor, dmg |-> dmg, kind |-> kind,
                ret |-> apply_armor_reduction(armor, dmg, kind)]
  /\ UNCHANGED <<state, views, result, registered, steps>>

\* segs: a line of any width from 6, the narrowest on which 3 .. segs - 3 is
\* not empty, to MaxSegs; idx: any gate
visGap ==
  /\ \E segs \in 6 .. MaxSegs : \E idx \in 0 .. NumGates - 1 :
       last' = [op |-> "_target_vis_gap", by |-> "a", ok |-> TRUE,
                segs |-> segs, idx |-> idx, ret |-> TargetVisGap(idx, segs)]
  /\ UNCHANGED <<state, views, result, registered, steps>>

CallSpec == CallInit /\ [][reduceArmor \/ visGap]_vars

\* ---------- attack resolution on its own ----------
\* Nothing in these sources puts a combatant into hidden or a slot into
\* disarmed: the fields are there for other effects to set.  Here a duel at
\* its opening, at the close gate or at hands-on range is given any hidden
\* set and any disarmed slots; a duel parted to the fourth gate, or with a
\* grenade lying at the feet of the turn owner, is taken as it is.
\* _attack_once is called on its own,
\* with either combatant attacking, the attributes level or ten points apart,
\* and a roll of 0.0, 0.1 or 0.999; or the Attack button is pressed, which
\* is btn_attack with the kit it loads on record.  last.slot is the slot
\* compute_attack_numbers chose, "none" when it found no viable weapon.
AttackInit ==
  /\ \/ \E w \in Opened \cup {w3 \in Closing3 : w3.s.range_idx = CLOSE} \cup AtHands :
        \E hid \in SUBSET Ids :
        \E dis \in [Ids -> SUBSET {"primary", "secondary"}] :
          /\ state = [w.s EXCEPT !.hidden = hid, !.disarmed = dis]
          /\ views = w.views
          /\ result = w.result
     \/ \E w \in Parted
                  \cup {wg \in Play(Opened \cup Parted,
                                    LAMBDA w0 : btn_grenade(w0, current(w0.s))) :
                          wg.s.grenades_pending[current(wg.s)] # <<>>} :
          /\ state = w.s
          /\ views = w.views
          /\ result = w.result
  /\ registered = TRUE
  /\ last = [op |-> "create", by |-> "a", ok |-> TRUE]
  /\ steps = 0

attackOnce(u) ==
  /\ steps < Horizon
  /\ last.op # "attack"
  /\ \E kit \in Kits : \E ca \in {10, 20} : \E cd \in {10, 20} : \E roll \in Rolls \cup {100} :
       /\ state' = _attack_once(state, u, OtherId(u), kit,
                                [combat |-> ca, fitness |-> 10, armor |-> 0],
                                [combat |-> cd, fitness |-> 10, armor |-> 0], roll)
       /\ last' = [op |-> "attackOnce", by |-> u, ok |-> TRUE,
                   slot |-> compute_attack_numbers(kit, rg_to_loadout_range(rngate(state))).slot]
  /\ steps' = steps + 1
  /\ UNCHANGED <<views, result, registered>>

\* DuelMainView.btn_attack, pressed on a duel as the handlers left it (a bare
\* _attack_once leaves out the resolution that follows it in a handler)
attackPress(u) ==
  /\ steps < Horizon
  /\ last.op # "attackOnce"
  /\ IF ~MainIsMyTurn(state, u)
     THEN /\ last' = [op |-> "attack", by |-> u, ok |-> FALSE, slot |-> "none"]
          /\ UNCHANGED <<state, views, result, steps>>
     ELSE \E kit \in Kits : \E atk \in AtkStats : \E dfn \in Stats : \E roll \in Rolls :
          \E w1 \in Detonations(W, current(state), u) :
          \E w2 \in Closing([w1 EXCEPT !.s = _attack_once(w1.s, current(w1.s), other(w1.s),
                                                           kit, atk, dfn, roll)], u) :
            /\ state' = w2.s
            /\ views' = w2.views
            /\ result' = w2.result
            /\ last' = [op |-> "attack", by |-> u, ok |-> TRUE,
                        slot |-> compute_attack_numbers(
                                   kit, rg_to_loadout_range(rngate(w1.s))).slot]
            /\ steps' = steps + 1
  /\ UNCHANGED registered

AttackSpec == AttackInit /\ [][\E u \in Ids : attackOnce(u) \/ attackPress(u)]_vars

\* ---------- what the specification says of the duel ----------
MainOps == {"advance", "disengage", "attack", "throwGrenade"}
GrappleOps == {"wrestle", "punch", "breakFree", "choke"}
TurnOps == MainOps \cup GrappleOps \cup {"beginGrapple", "squeeze", "letGo"}
FinisherOps == {"mercy", "beat", "kidnap"}
EntryOps == TurnOps \cup FinisherOps

\* the fields the specification names when it says an action changes nothing
Core(s) ==
  <<s.hp, s.pos, s.range_idx, s.turn_id, s.round_no, s.turn_tick, s.grappling,
    s.choking, s.unconscious, s.grenades_pending, s.finisher>>

\* the step is the handler of op, and it got past its guards
Did(ops) == last'.ok /\ last'.op \in ops

Out(s, u) == s.hp[u] = 0 \/ u \in s.unconscious

\* C1: both combatants' hit points are integers in 0..100 in every reachable
\* state, and no step ever raises a combatant's hit points.
C1_HpInRange == \A u \in Ids : state.hp[u] \in 0 .. StartHp
C1_HpBounded ==
  /\ []C1_HpInRange
  /\ [][\A u \in Ids : state'.hp[u] <= state.hp[u]]_vars

\* an attack whose damage exceeded the hit points left them at 0
C1_Witness == last.op = "attack" /\ last.ok /\ \E u \in Ids : state.hp[u] = 0

\* C2: once active is false it stays false, and every action entry point
\* leaves hit points, positions, range, turn owner, round, tick, grapple and
\* choke state, the unconscious set, pending grenades and the finisher as
\* they were.
C2_InactiveIsFinal ==
  [][~state.active =>
       /\ ~state'.active
       /\ last'.op \in EntryOps => (~last'.ok /\ Core(state') = Core(state))]_vars

\* the turn owner pressed Attack on an ended duel and was refused
C2_Witness ==
  ~state.active /\ last.op = "attack" /\ last.by = current(state) /\ ~last.ok

\* C3: a turn operation called by the participant who is not the turn owner
\* is refused and leaves the whole DuelState, log included, as it was.
C3_NotYourTurn ==
  [][(last'.op \in TurnOps /\ last'.by # current(state)) =>
       (~last'.ok /\ state' = state)]_vars

\* the choker squeezed out of turn and was refused
C3_Witness ==
  /\ state.active
  /\ state.choking # <<>>
  /\ last.op = "squeeze"
  /\ last.by = state.choking[1]
  /\ last.by # current(state)
  /\ ~last.ok

\* C4: while grappling, advance, disengage, attack and throwGrenade by the
\* turn owner are refused with no change of state; while not grappling,
\* wrestle, punch, breakFree and choke are refused with no change of state.
C4_PhaseLegality ==
  [][/\ (state.grappling /\ last'.op \in MainOps /\ last'.by = current(state)) =>
          (~last'.ok /\ state' = state)
     /\ (~state.grappling /\ last'.op \in GrappleOps) =>
          (~last'.ok /\ state' = state)]_vars

\* Advance was accepted in a grapple
C4_Witness == state.grappling /\ last.op = "advance" /\ last.ok

\* C5: while a finisher is set on an active duel, every entry point other
\* than the victor's mercy, beat or kidnap is refused with no change of state.
C5_FinisherLock ==
  [][(state.active /\ state.finisher # <<>> /\ last'.op \in EntryOps
        /\ ~(last'.op \in FinisherOps /\ last'.by = state.finisher[1])) =>
       (~last'.ok /\ state' = state)]_vars

\* the victor let go of the unconscious target instead of choosing a fate
C5_Witness ==
  /\ state.active
  /\ state.finisher # <<>>
  /\ state.finisher[2] \in state.unconscious
  /\ last.op = "letGo"
  /\ last.by = state.finisher[1]
  /\ last.ok

\* C6: a choke is only ever held inside a grapple, by one combatant on the
\* other, and every step that ends a grapple leaves no choke behind.
C6_ChokeInsideGrapple ==
  state.choking # <<>> =>
    /\ state.grappling
    /\ state.choking[1] \in Ids
    /\ state.choking[2] = OtherId(state.choking[1])
C6_ChokeNeedsGrapple ==
  /\ []C6_ChokeInsideGrapple
  /\ [][(state.grappling /\ ~state'.grappling) => state'.choking = <<>>]_vars

\* a grapple was broken by Break Free
C6_Witness ==
  last.op = "breakFree" /\ last.ok /\ ~state.grappling /\ state.choking = <<>>

\* C7: when the turn owner T has a grenade pending and completes any turn
\* operation, T has no grenade pending afterwards and T's hit points are down
\* by the grenade's armor-mitigated damage.
C7_GrenadeDetonatesFirst ==
  [][(Did(TurnOps) /\ last'.by = current(state)
        /\ state.grenades_pending[current(state)] # <<>>) =>
       /\ state'.grenades_pending[current(state)] = <<>>
       /\ \E armor \in Armors :
            state'.hp[current(state)] <=
              Max(0, state.hp[current(state)]
                       - apply_armor_reduction(armor,
                           state.grenades_pending[current(state)][2], "grenade")[1])]_vars

\* a grenade is pending on the combatant who has just thrown one
C7_Witness ==
  /\ last.op = "throwGrenade"
  /\ last.ok
  /\ state.grenades_pending[last.by] # <<>>

\* the opponent's hit points and the actor's own position are as they were
NoEffectOf(u) ==
  /\ state'.hp[OtherId(u)] = state.hp[OtherId(u)]
  /\ state'.pos[u] = state.pos[u]

\* C8: the AI takes no inline turn after the player's action has brought it
\* to 0 hit points, and an actor whom the pending grenade brings to 0 hit
\* points does not go on to resolve the chosen action.
C8_NoActionAtZero ==
  [][/\ (Did({"attack", "wrestle", "punch"}) /\ state.is_ai[other(state)]
           /\ state.grenades_pending[other(state)] = <<>>
           /\ state.hp[other(state)] > 0 /\ state'.hp[other(state)] = 0) =>
          state'.turn_tick = state.turn_tick + 1
     /\ (Did({"advance", "disengage", "attack"})
           /\ state.grenades_pending[current(state)] # <<>>
           /\ \A armor \in Armors :
                state.hp[current(state)] <=
                  apply_armor_reduction(armor,
                    state.grenades_pending[current(state)][2], "grenade")[1]) =>
          NoEffectOf(current(state))]_vars

\* the AI was shot down to 0 hit points and the duel ended
C8_Witness ==
  /\ state.is_ai["b"]
  /\ state.hp["b"] = 0
  /\ last.op = "attack"
  /\ last.ok
  /\ ~state.active

\* C9: whenever an action leaves both combatants out (0 hit points or
\* unconscious, in any combination) the duel has ended in a draw: not
\* active, no finisher, no winner on the banner.
C9_BothOutIsDraw ==
  [][(Did(EntryOps) /\ Out(state', "a") /\ Out(state', "b")) =>
       (~state'.active /\ state'.finisher = <<>> /\ result' = <<"draw">>)]_vars

\* both at 0 hit points, and the duel ended in a draw
C9_Witness ==
  /\ state.hp["a"] = 0
  /\ state.hp["b"] = 0
  /\ ~state.active
  /\ result = <<"draw">>

\* u is at 0 hit points and the opponent is above 0 and conscious
LostOnHp(s, u) ==
  s.hp[u] = 0 /\ s.hp[OtherId(u)] > 0 /\ OtherId(u) \notin s.unconscious

\* C10: whenever one combatant is at 0 hit points and the other is above 0
\* and conscious, the duel has ended (not active, no finisher), and the action
\* that brought this about declared the other the winner.
C10_Decided ==
  \A u \in Ids : LostOnHp(state, u) => (~state.active /\ state.finisher = <<>>)
C10_ZeroHpLoses ==
  /\ []C10_Decided
  /\ [][\A u \in Ids :
          (Did(EntryOps) /\ LostOnHp(state', u)) => result' = <<"win", OtherId(u)>>]_vars

\* an unconscious combatant is at 0 hit points and the duel goes on
C10_Witness ==
  state.active /\ \E u \in Ids : LostOnHp(state, u) /\ u \in state.unconscious

\* C11: while the duel is active, a finisher is set exactly when one
\* combatant is unconscious, and it names the conscious one as victor and the
\* unconscious one as target.
C11_FinisherIffOneOut ==
  state.active =>
    /\ (state.finisher # <<>>) <=> (Cardinality(state.unconscious) = 1)
    /\ state.finisher # <<>> =>
         /\ state.finisher[2] \in state.unconscious
         /\ state.finisher[1] = OtherId(state.finisher[2])
         /\ state.finisher[1] \notin state.unconscious

\* the ambient choke tick put a combatant out and the finisher names them
C11_Witness ==
  /\ state.active
  /\ last.ok
  /\ last.op \in MainOps
  /\ state.finisher # <<>>
  /\ last.by = state.finisher[2]
  /\ state.unconscious = {last.by}

\* C12: after any sequence of micro-moves from the initial placement, both
\* combatants are on the line, "a" strictly left of "b", and the range index
\* is one of the five gates.
C12_OnTheLine ==
  /\ 0 <= state.pos["a"]
  /\ state.pos["a"] < state.pos["b"]
  /\ state.pos["b"] <= VisSegments - 1
  /\ state.range_idx \in 0 .. NumGates - 1

\* the two stand next to each other after a step toward the opponent
C12_Witness ==
  /\ last.op = "microMove"
  /\ state.pos["b"] = state.pos["a"] + 1
  /\ state.range_idx = HANDS

\* C13: a grapple begun by the turn owner at hands-on range leaves the duel
\* grappling, the starter still the turn owner with tick and round as they
\* were, and the two exactly the grapple gap apart.
C13_GrappleBegins ==
  [][Did({"beginGrapple"}) =>
       /\ state'.grappling
       /\ current(state') = last'.by
       /\ state'.turn_tick = state.turn_tick
       /\ state'.round_no = state.round_no
       /\ state'.pos["b"] - state'.pos["a"] = GrappleGap]_vars

\* a grapple was begun and the starter is to move
C13_Witness ==
  /\ last.op = "beginGrapple"
  /\ last.ok
  /\ state.grappling
  /\ state.grapple_starter_id = <<last.by>>
  /\ current(state) = last.by

\* C14: beginGrapple away from hands-on range, or during a grapple, is refused
\* and leaves the whole DuelState as it was.
C14_NoGrappleHere ==
  [][(last'.op = "beginGrapple" /\ (state.range_idx # HANDS \/ state.grappling)) =>
       (~last'.ok /\ state' = state)]_vars

\* the turn owner asked for a grapple from a distance and was refused
C14_Witness ==
  /\ last.op = "beginGrapple"
  /\ ~last.ok
  /\ state.active
  /\ last.by = current(state)
  /\ ~state.grappling
  /\ state.range_idx # HANDS

\* C15: a step that takes the range gate off hands-on during a grapple ends
\* the grapple in that same step and leaves no choke; a choke that was held
\* is released with both meters cleared.
C15_GrappleBreaksWithRange ==
  [][(state.grappling /\ state.range_idx = HANDS /\ state'.range_idx # HANDS) =>
       /\ ~state'.grappling
       /\ state'.choking = <<>>
       /\ state.choking # <<>> =>
            \A u \in Ids : state'.breath[u] = NoVal /\ state'.bloodflow[u] = NoVal]_vars

\* the range opened on a held choke: grapple broken, choke released
C15_Witness ==
  /\ last.op = "stepRange"
  /\ state.range_idx # HANDS
  /\ ~state.grappling
  /\ state.choking = <<>>
  /\ LastLogIs(state, Raw("released"))

\* t passes out in this step
PassesOut(t) == t \notin state.unconscious /\ t \in state'.unconscious

\* C16: a squeeze changes nobody's hit points, and neither does the ambient
\* tick of a turn that ends with the choke held (a securing of the choke, a
\* move with no grenade to detonate); a combatant who passes out, under a
\* squeeze or under the ambient tick, is recorded as strangled by the choker
\* and keeps the hit points they had (a step in which they were also shot or
\* caught by their pending grenade aside).
C16_ChokeSparesHp ==
  [][/\ Did({"squeeze"}) => state'.hp = state.hp
     /\ (Did({"advance", "disengage", "choke"}) /\ state'.choking # <<>>
           /\ state.grenades_pending[last'.by] = <<>>) => state'.hp = state.hp
     /\ \A t \in Ids : PassesOut(t) =>
          /\ state'.choking # <<>>
          /\ state'.choking[2] = t
          /\ state'.last_hit[t] = <<state'.choking[1], "strangled">>
          /\ (state.grenades_pending[t] = <<>> /\ ~(last'.op = "attack" /\ last'.by # t)) =>
               state'.hp[t] = state.hp[t]]_vars

\* the choker squeezed the target out, hit points above 0
C16_Witness ==
  /\ last.op = "squeeze"
  /\ last.ok
  /\ state.choking # <<>>
  /\ state.choking[1] = last.by
  /\ state.choking[2] \in state.unconscious
  /\ state.hp[state.choking[2]] > 0
  /\ state.breath[state.choking[2]] = 0

\* C17: a combatant who is in the unconscious set stays in it, whatever
\* happens next.
C17_OutStaysOut ==
  [][state.unconscious \subseteq state'.unconscious]_vars

\* the choke on an unconscious combatant was let go, and they are still out
C17_Witness ==
  /\ last.op = "letGo"
  /\ last.ok
  /\ state.choking = <<>>
  /\ OtherId(last.by) \in state.unconscious

\* C18: squeeze and letGo by anyone but the choker on the choker's own turn,
\* or with no choke held, are refused and leave the whole DuelState, log
\* included, as it was.
C18_ChokerOnly ==
  [][(last'.op \in {"squeeze", "letGo"}
        /\ ~(state.choking # <<>> /\ state.choking[1] = last'.by
               /\ last'.by = current(state))) =>
       (~last'.ok /\ state' = state)]_vars

\* the choked combatant, on their own turn, tried to let go and was refused
C18_Witness ==
  /\ last.op = "letGo"
  /\ ~last.ok
  /\ state.active
  /\ state.choking # <<>>
  /\ last.by = state.choking[2]
  /\ last.by = current(state)

\* C19: mercy, beat and kidnap by anyone but the victor of the pending
\* finisher, or with no finisher pending, are refused and leave the whole
\* DuelState as it was.
C19_VictorOnly ==
  [][(last'.op \in FinisherOps
        /\ ~(state.finisher # <<>> /\ last'.by = state.finisher[1])) =>
       (~last'.ok /\ state' = state)]_vars

\* the unconscious target pressed Mercy on the victor's view and was refused
C19_Witness ==
  /\ last.op = "mercy"
  /\ ~last.ok
  /\ state.active
  /\ state.finisher # <<>>
  /\ last.by = state.finisher[2]

\* C20: a Beat by the victor of a pending finisher, whose target is the
\* other combatant and unconscious, takes 1..7 hit points off the target, floored
\* at 0, and nobody else's; turn owner, round and tick stay; the duel ends
\* with the finisher cleared exactly when the target is at 0, and otherwise
\* stays active with the same finisher.
C20_BeatByBeat ==
  [][(Did({"beat"}) /\ state.finisher # <<>> /\ last'.by = state.finisher[1]
        /\ state.finisher[2] = OtherId(last'.by)
        /\ state.finisher[2] \in state.unconscious) =>
       /\ \E d \in 1 .. 7 :
            state'.hp[state.finisher[2]] = Max(0, state.hp[state.finisher[2]] - d)
       /\ state'.hp[state.finisher[1]] = state.hp[state.finisher[1]]
       /\ state'.turn_id = state.turn_id
       /\ state'.round_no = state.round_no
       /\ state'.turn_tick = state.turn_tick
       /\ IF state'.hp[state.finisher[2]] = 0
          THEN ~state'.active /\ state'.finisher = <<>>
          ELSE state'.active /\ state'.finisher = state.finisher]_vars

\* the target was beaten and is still above 0: the finisher is still pending
C20_Witness ==
  /\ last.op = "beat"
  /\ last.ok
  /\ state.active
  /\ state.finisher # <<>>
  /\ last.by = state.finisher[1]
  /\ state.hp[state.finisher[2]] > 0
  /\ state.last_hit[state.finisher[2]] = <<last.by, "punch">>

\* C21: a Mercy or a Kidnap that is carried out ends the duel in that one
\* step (active false, finisher cleared), leaves both combatants' hit points
\* as they were, and records the caller's "mercy" respectively "kidnap" as
\* the last hit on the target of the caller's finisher view.
C21_FateEndsDuel ==
  [][Did({"mercy", "kidnap"}) =>
       /\ ~state'.active
       /\ state'.finisher = <<>>
       /\ state'.hp = state.hp
       /\ \E v \in views :
            /\ v[1] = last'.by
            /\ state'.last_hit[v[2]] = <<last'.by, last'.op>>
            /\ \A t \in Ids \ {v[2]} : state'.last_hit[t] = state.last_hit[t]]_vars

\* the victor kidnapped the unconscious target: the duel is over
C21_Witness ==
  /\ last.op = "kidnap"
  /\ last.ok
  /\ ~state.active
  /\ state.finisher = <<>>
  /\ OtherId(last.by) \in state.unconscious
  /\ state.last_hit[OtherId(last.by)] = <<last.by, "kidnap">>

\* C22: an end_turn that hands the turn to a combatant with no stagger flag
\* flips the turn owner once, raises the tick by exactly 1, and raises the
\* round by 1 exactly when the new owner is index 0 (else leaves it); and no
\* step of the duel, whichever operation it is, lowers the tick or the round.
C22_TurnAdvances ==
  [][/\ state'.turn_tick >= state.turn_tick
     /\ state'.round_no >= state.round_no
     /\ (last'.op = "endTurn" /\ other(state) \notin state.skip_turn_for) =>
          /\ state'.turn_id = Xor1(state.turn_id)
          /\ state'.turn_tick = state.turn_tick + 1
          /\ state'.round_no = state.round_no + (IF state'.turn_id = 0 THEN 1 ELSE 0)
          /\ state'.skip_turn_for = state.skip_turn_for]_vars

\* "b", flagged but the one who just acted, ended the turn: "a" owns the
\* turn one tick later and the flag on "b" is still there
C22_Witness ==
  /\ last.op = "endTurn"
  /\ last.by = "b"
  /\ steps = 1
  /\ state.turn_id = 0
  /\ state.skip_turn_for = {"b"}

\* C23: an end_turn that hands the turn to a combatant flagged to skip
\* consumes the flag and passes that combatant over: afterwards the turn
\* owner is the combatant who just acted, the tick is up by exactly 2, the
\* round by exactly 1, the staggered combatant's flag is gone and nobody
\* else's flag has changed.
C23_StaggerSkips ==
  [][(last'.op = "endTurn" /\ other(state) \in state.skip_turn_for) =>
       /\ state'.turn_id = state.turn_id
       /\ state'.turn_tick = state.turn_tick + 2
       /\ state'.round_no = state.round_no + 1
       /\ state'.skip_turn_for = state.skip_turn_for \ {other(state)}]_vars

\* "a" ended the turn on a staggered "b" and owns the turn again, two ticks on
C23_Witness ==
  /\ last.op = "endTurn"
  /\ last.by = "a"
  /\ steps = 2
  /\ state.turn_id = 0
  /\ state.skip_turn_for = {}
  /\ \E i \in 1 .. Len(state.log_lines) : state.log_lines[i] = Raw("stagger")

\* the stack count of u, a missing entry counting as 0
StackCount(s, u) == IF s.clearing_stacks[u] = NoVal THEN 0 ELSE s.clearing_stacks[u]

\* C24: one run of the clearing expiry removes from each combatant's expiry
\* list exactly the entries at or before the current tick, keeps the others
\* in order, lowers the stack count by the number removed but not below 0;
\* and a second run with the tick unchanged changes nothing.
C24_ExpiryByTick ==
  [][/\ last'.op = "expire" =>
          \A u \in Ids :
            LET exps == state.clearing_expiries[u]
                kept == SelectSeq(exps, LAMBDA t : t > state.turn_tick)
            IN  /\ state'.clearing_expiries[u] = kept
                /\ StackCount(state', u) >= 0
                /\ StackCount(state', u) = Max(0, StackCount(state, u) - (Len(exps) - Len(kept)))
     /\ (last.op = "expire" /\ last'.op = "expire") => state' = state]_vars

\* a run at tick 1 or later took two entries off the lists, and a stack
\* count that was smaller than the number removed stopped at 0
C24_Witness ==
  /\ last.op = "expire"
  /\ last.removed = 2
  /\ state.clearing_expiries["a"] = <<2>>
  /\ StackCount(state, "a") = 0

\* C25: after any sequence of log operations (seeding and the initiative
\* line as the creation of a duel runs them, then push, add_raw and
\* replace_last) the visible window has at most 6 entries and is the last
\* min(6, length) entries of the full log.
C25_WindowIsTail ==
  LET n == Len(state.full_log_lines)
      k == Min(LogVisible, n)
  IN  /\ Len(state.log_lines) <= LogVisible
      /\ state.log_lines = SubSeq(state.full_log_lines, n - k + 1, n)

\* the last line was replaced after the full log had outgrown the window
C25_Witness ==
  /\ last.op = "replace_last"
  /\ Len(state.full_log_lines) = 8
  /\ Len(state.log_lines) = LogVisible
  /\ state.full_log_lines[7].fx
  /\ state.log_lines[LogVisible] = Raw("misses")

\* C26: for every incoming damage of 1 or more, every integer armor, negative
\* ones included, and every damage kind, the mitigation is at least 0 and at
\* most damage - 1, and the damage applied is damage - mitigation, at least
\* 1; a grenade of 35 against armor 10 is mitigated by 5 and applies 30.
C26_ArmorLeavesOne ==
  last.op = "apply_armor_reduction" =>
    /\ last.ret[2] >= 0
    /\ last.ret[2] <= last.dmg - 1
    /\ last.ret[1] = last.dmg - last.ret[2]
    /\ last.ret[1] >= 1
    /\ (last.dmg = 35 /\ last.armor = 10 /\ last.kind = "grenade") => last.ret = <<30, 5>>

\* melee armor 10 would take 6 off a hit of 3: the mitigation stops at 2
C26_Witness ==
  /\ last.op = "apply_armor_reduction"
  /\ last.kind = "melee"
  /\ last.armor = 10
  /\ last.dmg = 3
  /\ last.ret = <<1, 2>>

\* C28: on a line of a fixed width the target gap of a gate lies in
\* 3 .. width - 3, and it does not get smaller as the gate index goes up
\* from 0 to 4.
C28_GapInLine == last.op = "_target_vis_gap" => last.ret \in 3 .. last.segs - 3
C28_GapMonotonic ==
  /\ []C28_GapInLine
  /\ [][(last.op = "_target_vis_gap" /\ last'.op = "_target_vis_gap"
           /\ last'.segs = last.segs /\ last'.idx >= last.idx) =>
          last'.ret >= last.ret]_vars

\* on the 26 segment line the widest gate's 25 is held at 23
C28_Witness ==
  /\ last.op = "_target_vis_gap"
  /\ last.segs = VisSegments
  /\ last.idx = NumGates - 1
  /\ last.ret = VisSegments - 3

\* C27: after a coarse range step by a given mover on a duel that is not
\* grappling, the separation pos[b] - pos[a] is the target gap of the new
\* gate, the combatant who did not move is where they were, and pos[a] is
\* below pos[b].
C27_StepKeepsGap ==
  [][(last'.op = "stepRange" /\ last'.by \in Ids /\ ~state.grappling) =>
       /\ state'.pos["b"] - state'.pos["a"] = TargetVisGap(state'.range_idx, VisSegments)
       /\ state'.pos[OtherId(last'.by)] = state.pos[OtherId(last'.by)]
       /\ state'.pos["a"] < state'.pos["b"]]_vars


\* the mover could not go 19 short of the anchored opponent: "a" stands at
\* the end of the line, 18 from "b", with the gate at 3
C27_Witness ==
  /\ last.op = "stepRange"
  /\ last.by = "a"
  /\ ~state.grappling
  /\ state.range_idx = 3
  /\ state.pos = [a |-> 0, b |-> 18]

\* C29: an attack on a defender who is in the hidden set misses, whatever
\* the two combatants' combat and fitness attributes are: the defender's hit
\* points stay as they were.
C29_HiddenIsMissed ==
  [][(last'.op = "attackOnce" /\ OtherId(last'.by) \in state.hidden) =>
       state'.hp[OtherId(last'.by)] = state.hp[OtherId(last'.by)]]_vars

\* a hidden defender was hit
C29_Witness ==
  /\ last.op = "attackOnce"
  /\ OtherId(last.by) \in state.hidden
  /\ state.last_hit[OtherId(last.by)] = <<last.by, "shot">>
  /\ LastLogIs(state, Framed("hits"))

\* C30: the weapon chosen for an attack is never in a slot that is in the
\* attacker's disarmed set.
C30_DisarmedRefused ==
  [][last'.op = "attackOnce" => last'.slot \notin state.disarmed[last'.by]]_vars

\* an attack was made with the weapon of a disarmed slot
C30_Witness ==
  /\ last.op = "attackOnce"
  /\ last.slot = "primary"
  /\ "primary" \in state.disarmed[last.by]

\* C31: a duel is registered for its channel only while it is active: the
\* step that makes the duel inactive (a victory, a draw, a mercy, a kidnap, a
\* lethal beating, the idle timeout or a reset) also takes it out of the
\* registry.
C31_RetiredWhenOver ==
  [][(state.active /\ ~state'.active) => ~registered']_vars

\* mercy ended the duel, and it is still the channel's duel
C31_Witness ==
  /\ last.op = "mercy"
  /\ last.ok
  /\ ~state.active
  /\ registered

\* C39: in every reachable state in which the duel is not active there is no
\* pending finisher, whichever way the duel ended: a victory, a draw, a
\* mercy, a kidnap, a lethal beating, a reset or the idle timeout.
C39_OverMeansNoFinisher == ~state.active => state.finisher = <<>>

\* the main view timed out while the victor had not yet chosen a fate
C39_Witness ==
  /\ last.op = "timeout"
  /\ ~state.active
  /\ state.finisher # <<>>

\* C36: in every state the duel reaches through its entry points the range
\* gate is the one derived from the separation of the two positions,
\* clamp(round((pos[b] - pos[a]) / 25 * 4), 0, 4), during a grapple and
\* after a break free as well; and for each gate i the placement of a new
\* duel at gate i is at a separation that derives gate i again.
C36_GateFromGap ==
  /\ state.range_idx = GateOfGap(state.pos["b"] - state.pos["a"], VisSegments)
  /\ \A i \in 0 .. NumGates - 1 :
       LET pos == PostInitPos(i, VisSegments)
       IN  /\ pos["b"] - pos["a"] = TargetVisGap(i, VisSegments)
           /\ GateOfGap(pos["b"] - pos["a"], VisSegments) = i

\* the two broke out of a grapple and stand 2 apart at the hands gate
C36_Witness ==
  /\ last.op = "breakFree"
  /\ last.ok
  /\ ~state.grappling
  /\ state.pos["b"] - state.pos["a"] = GrappleGap
  /\ state.range_idx = HANDS

\* C38: in a duel against the AI that is still active, the turn owner is the
\* human, or a finisher is pending whose victor is the human; the AI is
\* never the one who holds a choke and never the victor of a finisher.
C38_NeverWaitsOnAi ==
  (state.is_ai["b"] /\ state.active) =>
    /\ \/ ~state.is_ai[current(state)]
       \/ state.finisher # <<>> /\ ~state.is_ai[state.finisher[1]]
    /\ state.choking # <<>> => ~state.is_ai[state.choking[1]]
    /\ state.finisher # <<>> => ~state.is_ai[state.finisher[1]]

\* the human's squeeze put the AI out: the turn is the AI's, and the fate is
\* the human's to choose
C38_Witness ==
  /\ state.is_ai["b"]
  /\ state.active
  /\ last.op = "squeeze"
  /\ last.ok
  /\ current(state) = "b"
  /\ state.finisher = <<"a", "b">>

\* The AI policy is only ever called inside a handler: right after the
\* human's own end_turn in a turn-ending button handler, and at the end of
\* /duel ai.  In a duel against the AI, the human's end_turn hands the turn to
\* the AI, so the policy is called with the duel active and the AI as turn
\* owner at each such press, and each end_turn raises turn_tick by one.
AiTurnOps == TurnOps \ {"beginGrapple"}

\* C32 as the specification has it: whichever branch the AI policy takes, it
\* ends with exactly one end_turn: over the human's press turn_tick goes up by
\* two, the human's end_turn and the AI's, and the turn owner after it is
\* not the AI.
C32_AiEndsTurn ==
  [][(state.is_ai["b"] /\ Did(AiTurnOps)) =>
       /\ state'.turn_tick = state.turn_tick + 2
       /\ ~state'.is_ai[current(state')]]_vars

\* C32: the AI policy either presents a finisher and returns at once, the
\* turn still the AI's and no end_turn made (the human is then the victor of
\* a pending finisher over the unconscious AI), or takes one of its acting
\* branches and ends with exactly one end_turn, after which the turn owner is
\* not the AI.
C32_AiEndsTurnOrOffers ==
  [][(state.is_ai["b"] /\ Did(AiTurnOps)) =>
       \/ /\ state'.turn_tick = state.turn_tick + 2
          /\ ~state'.is_ai[current(state')]
       \/ /\ state'.turn_tick = state.turn_tick + 1
          /\ state'.is_ai[current(state')]
          /\ state'.active
          /\ state'.finisher = <<"a", "b">>
          /\ "b" \in state'.unconscious
          /\ <<"a", "b">> \in views']_vars

\* the AI, in the human's choke, struggled and ended its turn
C32_Witness ==
  /\ state.is_ai["b"]
  /\ last.op = "squeeze"
  /\ last.ok
  /\ state.active
  /\ state.finisher = <<>>
  /\ LastLogIs(state, Framed("struggles"))
  /\ current(state) = "a"

\* C37: while the two are grappling the range gate is HANDS and the positions
\* are exactly 2 apart; an advance or a disengage made during a grapple
\* leaves the positions and the range gate as they were.
C37_GrappleHeldAtHands ==
  /\ [](state.grappling =>
          /\ state.range_idx = HANDS
          /\ state.pos["b"] - state.pos["a"] = GrappleGap)
  /\ [][(state.grappling /\ Did({"advance", "disengage"})) =>
          /\ state'.pos = state.pos
          /\ state'.range_idx = state.range_idx]_vars

\* a grappled combatant pressed Disengage: the press went through, and the
\* two are where they were
C37_Witness ==
  /\ last.op = "disengage"
  /\ last.ok
  /\ state.grappling
  /\ state.choking = <<>>
  /\ state.range_idx = HANDS
  /\ state.pos["b"] - state.pos["a"] = GrappleGap
  /\ LastLogIs(state, Framed("retreats"))

\* C33: an attack by a combatant with no equipped weapon for the range, made
\* at the HANDS or the CLOSE gate (loadout range Close), is resolved with the
\* unarmed profile: it is a hit for 6 or a miss, never a refusal.
C33_FistsAtClose ==
  [][(/\ last'.op = "attackOnce"
      /\ last'.slot = "unarmed"
      /\ state.range_idx \in {HANDS, CLOSE}) =>
       \/ /\ LastLogIs(state', Framed("hits"))
          /\ state'.hp[OtherId(last'.by)] = Max(0, state.hp[OtherId(last'.by)] - FistsDamage)
       \/ /\ LastLogIs(state', Framed("misses"))
          /\ state'.hp = state.hp]_vars

\* an unarmed attack at the close gate was refused as too far
C33_Witness ==
  /\ last.op = "attackOnce"
  /\ last.slot = "unarmed"
  /\ state.range_idx = CLOSE
  /\ ~state.grappling
  /\ LastLogIs(state, Framed("too far"))

Drained(m, m2, target, lo, hi, lo2, hi2) ==
  \E d \in lo .. hi : \E d2 \in lo2 .. hi2 :
    m2[target] = iclamp(iclamp(MeterGet(m, target) - d, 0, 100) - d2, 0, 100)

\* C35: while a choke is held, every end_turn applies exactly one ambient
\* choke tick to the target: breath down by 6..10 and bloodflow down by 3..7,
\* held within 0..100.  That is so of an end_turn that advances the turn twice
\* over a staggered combatant, of the end_turn that closes the press that
\* secured the choke, and of the one that closes a squeeze (after the
\* squeeze's own 8..12 and 4..8).  With no choke held, end_turn leaves the
\* meters as they were.
C35_OneTickPerEndTurn ==
  [][/\ (last'.op = "endTurn" /\ state.choking # <<>>) =>
          /\ Drained(state.breath, state'.breath, state.choking[2], 6, 10, 0, 0)
          /\ Drained(state.bloodflow, state'.bloodflow, state.choking[2], 3, 7, 0, 0)
     /\ (last'.op = "endTurn" /\ state.choking = <<>>) =>
          /\ state'.breath = state.breath
          /\ state'.bloodflow = state.bloodflow
     /\ (/\ Did({"choke"})
         /\ ~state.is_ai["b"]
         /\ state'.choking # <<>>) =>
          /\ Drained(state.breath, state'.breath, state'.choking[2], 0, 0, 6, 10)
          /\ Drained(state.bloodflow, state'.bloodflow, state'.choking[2], 0, 0, 3, 7)
     /\ (/\ Did({"squeeze"})
         /\ ~state.is_ai["b"]
         /\ state.choking # <<>>) =>
          /\ Drained(state.breath, state'.breath, state.choking[2], 8, 12, 6, 10)
          /\ Drained(state.bloodflow, state'.bloodflow, state.choking[2], 4, 8, 3, 7)]_vars

\* an end_turn by the target of a choke skipped the staggered choker, two
\* ticks of the clock on, and the target, one draw down, is still awake
C35_Witness ==
  /\ last.op = "endTurn"
  /\ state.choking # <<>>
  /\ last.by = state.choking[2]
  /\ current(state) = state.choking[2]
  /\ LastLogIs(state, Raw("stagger"))
  /\ state.choking[2] \notin state.unconscious
  /\ state.breath[state.choking[2]] > 0

\* what each turn-ending button handler can produce for the caller u
TurnEnders(w, u) ==
  {btn_advance(w, u), btn_attack(w, u), btn_grenade(w, u), btn_disengage(w, u),
   btn_wrestle(w, u), btn_punch(w, u), btn_breakfree(w, u), btn_choke(w, u),
   btn_squeeze(w, u), btn_letgo(w, u)}

====
